---- MODULE Spec2Model ----
(***************************************************************************)
(* A model of the routee-compass core: the Graph adjacency operations, the *)
(* label-setting search that consumes them, the RouteE random-forest       *)
(* traversal model, the StateModel schema over the state vector and the    *)
(* CostAggregation fold.                                                   *)
(*                                                                         *)
(* Every component has its own specification over the shared variables:    *)
(*   Spec     the search over a Graph                 (Init,    Next)      *)
(*   SpecRF   RouteERandomForestModel along a path    (InitRF,  NextRF)    *)
(*   SpecSM   StateModel::new / extend / typed access (InitSM,  NextSM)    *)
(*   SpecSV   typed accessors on a state vector       (InitSV,  NextSV)    *)
(*   SpecAgg  CostAggregation::agg                    (InitAgg, NextAgg)   *)
(*   SpecQuery, SpecAccess, SpecRFNonFinite, SpecInterp, SpecGraph,        *)
(*   SpecStart, SpecCells, SpecAggIter, SpecNew: see the sections that     *)
(*   define them                                                           *)
(* The variables of the other components stay at their idle values.        *)
(*                                                                         *)
(* Rust indices are 0-based; a Vec v is modelled as a TLA+ sequence and    *)
(* v[i] as Seq[i + 1].  A Result is a record [ok |-> TRUE, val |-> x] or   *)
(* [ok |-> FALSE, err |-> "Kind"].                                         *)
(***************************************************************************)
EXTENDS Integers, Sequences, FiniteSets, TLC

VARIABLES
    \* ---- search -------------------------------------------------------
    graph,        \* the Graph: adj, rev, edges, vertices
    h,            \* the heuristic table: vertex id -> estimate to destination
    origin,       \* query origin vertex id
    destination,  \* query destination vertex id
    direction,    \* "Forward" or "Reverse"
    frontier,     \* priority queue: set of [f, g, v] entries
    tree,         \* VertexId -> SearchTreeBranch (a function on the vertices written)
    settled,      \* set of settled vertex ids
    pc,           \* "searching", "done", "nopath", "error"
    result,       \* the route returned (sequence of edge traversals)
    \* ---- RouteERandomForestModel ---------------------------------------
    rf,           \* routee_model and minimum_energy_per_mile, as built by new
    rfAt,         \* [start, cur]: the path's first vertex and the vertex reached
    rfState,      \* TraversalState: a vector with the accumulated energy at [0]
    rfLast,       \* the last call: [kind, pred, total_cost, before], and for a
                  \* traversal_cost call what it returned (res)
    rfSum,        \* sum of the total_cost values returned along the path
    \* ---- StateModel -----------------------------------------------------
    sm,           \* the StateModel value
    smIn,         \* how sm was obtained: [op, base, entries]
    sv,           \* a state vector handed to the typed accessors
    smLast,       \* the last accessor call and what it returned
    \* ---- CostAggregation ------------------------------------------------
    aggIn,        \* [mode, costs]: the input of the last agg call
    aggOut,       \* the Cost it returned
    \* ---- BilinearInterp -------------------------------------------------
    interp,       \* what BilinearInterp::new returned: Ok([x, y, values]) or Err
    interpLast,   \* the last interpolate call: [x, y, res]
    \* ---- Graph operations -----------------------------------------------
    graphLast     \* the last Graph operation called on graph: [op, id, dir, res]

searchVars == <<graph, h, origin, destination, direction, frontier, tree, settled, pc, result>>
rfVars     == <<rf, rfAt, rfState, rfLast, rfSum>>
smVars     == <<sm, smIn, sv, smLast>>
aggVars    == <<aggIn, aggOut>>
interpVars == <<interp, interpLast>>
callVars   == <<graphLast>>
vars       == <<searchVars, rfVars, smVars, aggVars, interpVars, callVars>>

Ok(x)  == [ok |-> TRUE, val |-> x]
Err(e) == [ok |-> FALSE, err |-> e]

\* a read outside a Vec or slice panics: the call returns neither Ok nor Err
IndexPanic == [ok |-> FALSE, err |-> "panicked: index out of bounds"]

Min2(a, b) == IF a <= b THEN a ELSE b
Max2(a, b) == IF a >= b THEN a ELSE b

\* the i-th entry of a sequence of digits or coefficients, 0 beyond its end
Coef(p, i) == IF i \in DOMAIN p THEN p[i] ELSE 0

\* the sequence without its high zeros; 0 is <<0>>
RECURSIVE Trim(_)
Trim(p) ==
    IF Len(p) = 0 THEN <<0>>
    ELSE IF Len(p) > 1 /\ p[Len(p)] = 0 THEN Trim(SubSeq(p, 1, Len(p) - 1))
    ELSE p

\* every enumeration of a finite set as a sequence without repetition: the
\* orders in which HashMap::keys may list the keys
KeyOrders(S) ==
    { q \in [1..Cardinality(S) -> S] : \A i, j \in 1..Cardinality(S) : q[i] = q[j] => i = j }

IdleSearch ==
    /\ graph = <<>> /\ h = <<>> /\ origin = 0 /\ destination = 0
    /\ direction = "Forward" /\ frontier = {} /\ tree = <<>>
    /\ settled = {} /\ pc = "idle" /\ result = <<>>
IdleRF  == rf = <<>> /\ rfAt = <<>> /\ rfState = <<>> /\ rfLast = <<>> /\ rfSum = 0
IdleSM  == sm = <<>> /\ smIn = <<>> /\ sv = <<>> /\ smLast = <<>>
IdleAgg == aggIn = <<>> /\ aggOut = <<0>>
IdleInterp == interp = <<>> /\ interpLast = <<>>
IdleCall   == graphLast = <<>>

(***************************************************************************)
(* Graph (compass-core/src/model/graphv2/graph.rs)                         *)
(***************************************************************************)

\* Vec::get(i): Some(v[i]) when i < len, else None
edge_attr(g, edge_id) ==
    IF edge_id + 1 \in DOMAIN g.edges
    THEN Ok(g.edges[edge_id + 1])
    ELSE Err("EdgeAttributeNotFound")

vertex_attr(g, vertex_id) ==
    IF vertex_id + 1 \in DOMAIN g.vertices
    THEN Ok(g.vertices[vertex_id + 1])
    ELSE Err("VertexAttributeNotFound")

\* a mutant: a vertex whose slot holds no edge is reported as an error
out_edges_empty_is_error(g, src) ==
    IF src + 1 \in DOMAIN g.adj /\ DOMAIN g.adj[src + 1] # {}
    THEN Ok(DOMAIN g.adj[src + 1])
    ELSE Err("VertexWithoutOutEdges")

\* the key set of adj[src]; the Vec returned lists it in one of KeyOrders
out_edges(g, src) ==
    IF src + 1 \in DOMAIN g.adj
    THEN Ok(DOMAIN g.adj[src + 1])
    ELSE Err("VertexWithoutOutEdges")

\* a mutant: the incoming edges are read from adj
in_edges_from_adj(g, src) ==
    IF src + 1 \in DOMAIN g.adj
    THEN Ok(DOMAIN g.adj[src + 1])
    ELSE Err("VertexWithoutInEdges")

in_edges(g, src) ==
    IF src + 1 \in DOMAIN g.rev
    THEN Ok(DOMAIN g.rev[src + 1])
    ELSE Err("VertexWithoutInEdges")

src_vertex(g, edge_id) ==
    LET e == edge_attr(g, edge_id) IN
    IF e.ok THEN Ok(e.val.src_vertex_id) ELSE e

dst_vertex(g, edge_id) ==
    LET e == edge_attr(g, edge_id) IN
    IF e.ok THEN Ok(e.val.dst_vertex_id) ELSE e

incident_edges(g, vertex_id, dir) ==
    IF dir = "Forward" THEN out_edges(g, vertex_id) ELSE in_edges(g, vertex_id)

\* a mutant: the terminal vertex is the edge's destination in both directions
incident_vertex_always_dst(g, edge_id, dir) ==
    dst_vertex(g, edge_id)

incident_vertex(g, edge_id, dir) ==
    IF dir = "Forward" THEN dst_vertex(g, edge_id) ELSE src_vertex(g, edge_id)

\* the loop of incident_triplets over edge_ids[i..]: the first failing
\* incident_vertex is returned and the triplets pushed so far are dropped
RECURSIVE triplets_from(_, _, _, _, _, _)
triplets_from(g, vertex_id, dir, edge_ids, i, acc) ==
    IF i > Len(edge_ids) THEN Ok(acc)
    ELSE LET t == incident_vertex(g, edge_ids[i], dir) IN
         IF ~t.ok THEN t
         ELSE triplets_from(g, vertex_id, dir, edge_ids, i + 1,
                            Append(acc, <<vertex_id, edge_ids[i], t.val>>))

\* a mutant: the last incident edge is left out
incident_triplets_skip_last(g, vertex_id, dir, edge_ids) ==
    IF Len(edge_ids) = 0 THEN Ok(<<>>)
    ELSE triplets_from(g, vertex_id, dir, SubSeq(edge_ids, 1, Len(edge_ids) - 1), 1, <<>>)

\* incident_triplets, given the order edge_ids in which incident_edges listed
\* the keys (the caller passes one of KeyOrders(incident_edges(..).val))
incident_triplets(g, vertex_id, dir, edge_ids) ==
    triplets_from(g, vertex_id, dir, edge_ids, 1, <<>>)

(***************************************************************************)
(* The graphs searched.  Ingestion (outside the core) fills adj and rev    *)
(* from the edge list: adj[v] maps each edge leaving v to its dst, rev[v]  *)
(* each edge entering v to its src.                                        *)
(***************************************************************************)
NumVertices == 4
MaxCost     == 2
MaxH        == 2
\* above the cost of every path without a repeated vertex
Infinity    == NumVertices * (MaxCost + 1)

VertexIds == 0..(NumVertices - 1)

\* the endpoints an edge list may connect; each pair is present with a
\* distance in 0..MaxCost or absent
CandidatePairs == << <<0, 1>>, <<0, 2>>, <<1, 2>>, <<2, 1>>, <<1, 3>>, <<2, 3>> >>
Absent == MaxCost + 1

RECURSIVE EdgeList(_, _, _)
EdgeList(choice, i, acc) ==
    IF i > Len(CandidatePairs) THEN acc
    ELSE IF choice[i] = Absent THEN EdgeList(choice, i + 1, acc)
    ELSE EdgeList(choice, i + 1,
                  Append(acc, [edge_id       |-> Len(acc),
                               src_vertex_id |-> CandidatePairs[i][1],
                               dst_vertex_id |-> CandidatePairs[i][2],
                               distance      |-> choice[i]]))

BuildGraph(edgeList) ==
    [ adj      |-> [ i \in 1..NumVertices |->
                       [ e \in { k \in 0..(Len(edgeList) - 1) : edgeList[k + 1].src_vertex_id = i - 1 }
                           |-> edgeList[e + 1].dst_vertex_id ] ],
      rev      |-> [ i \in 1..NumVertices |->
                       [ e \in { k \in 0..(Len(edgeList) - 1) : edgeList[k + 1].dst_vertex_id = i - 1 }
                           |-> edgeList[e + 1].src_vertex_id ] ],
      edges    |-> edgeList,
      vertices |-> [ i \in 1..NumVertices |-> [vertex_id |-> i - 1] ] ]

Graphs == { BuildGraph(EdgeList(c, 1, <<>>)) : c \in [1..Len(CandidatePairs) -> 0..Absent] }

(***************************************************************************)
(* SearchEngine (spec section 4.5), with the distance-only traversal and   *)
(* cost model: the cost of crossing an edge is its distance, g is the sum  *)
(* of the edge costs, h is the table `h`.                                  *)
(***************************************************************************)

edge_cost(g, edge_id) == g.edges[edge_id + 1].distance

\* the frontier's order: lower f, then lower g, then lower vertex id
Before(a, b) ==
    \/ a.f < b.f
    \/ a.f = b.f /\ a.g < b.g
    \/ a.f = b.f /\ a.g = b.g /\ a.v <= b.v

IsFirst(ent, fr) == \A o \in fr : Before(ent, o)

\* step 2 of an expansion for the triplets trips[i..]: tr and fr are the tree
\* and the frontier as the earlier triplets left them
RECURSIVE Relax(_, _, _, _, _, _, _)
Relax(g, trips, i, g_u, done, tr, fr) ==
    IF i > Len(trips) THEN [tree |-> tr, frontier |-> fr]
    ELSE
      LET u   == trips[i][1]
          e   == trips[i][2]
          v   == trips[i][3]
          g_v == g_u + edge_cost(g, e)
      IN  IF v \in done THEN Relax(g, trips, i + 1, g_u, done, tr, fr)
          ELSE IF v \notin DOMAIN tr \/ g_v < tr[v].g
          THEN Relax(g, trips, i + 1, g_u, done,
                     [ x \in DOMAIN tr \cup {v} |->
                         IF x = v
                         THEN [edge_id |-> e, cost |-> edge_cost(g, e), g |-> g_v,
                               prev |-> u, terminal_vertex |-> v]
                         ELSE tr[x] ],
                     fr \cup { [f |-> g_v + h[v], g |-> g_v, v |-> v] })
          ELSE Relax(g, trips, i + 1, g_u, done, tr, fr)

\* route reconstruction: from v follow tree[v].prev back to the origin; the
\* list is in source-to-destination order
RECURSIVE Route(_, _, _, _)
Route(tr, o, v, fuel) ==
    IF v = o \/ fuel = 0 \/ v \notin DOMAIN tr THEN <<>>
    ELSE Append(Route(tr, o, tr[v].prev, fuel - 1),
                [edge_id |-> tr[v].edge_id, cost |-> tr[v].cost])

RECURSIVE RouteCost(_)
RouteCost(route) ==
    IF route = <<>> THEN 0
    ELSE route[Len(route)].cost + RouteCost(SubSeq(route, 1, Len(route) - 1))

\* ---- the reference: least path cost in the search direction ------------
\* Bellman-Ford rounds over the edge list
\* one Bellman-Ford round over the edge list
LeastStep(g, dir, d) ==
    [ v \in VertexIds |->
        LET into == { d[IF dir = "Forward" THEN g.edges[k].src_vertex_id
                                           ELSE g.edges[k].dst_vertex_id]
                        + g.edges[k].distance :
                      k \in { k \in DOMAIN g.edges :
                                v = IF dir = "Forward" THEN g.edges[k].dst_vertex_id
                                                       ELSE g.edges[k].src_vertex_id } }
            all  == into \cup {d[v]}
        IN  Min2(Infinity, CHOOSE x \in all : \A y \in all : x <= y) ]

RECURSIVE LeastFrom(_, _, _, _)
LeastFrom(g, dir, s, rounds) ==
    IF rounds = 0 THEN [ v \in VertexIds |-> IF v = s THEN 0 ELSE Infinity ]
    ELSE CHOOSE r \in { LeastStep(g, dir, d) : d \in { LeastFrom(g, dir, s, rounds - 1) } } : TRUE

Least(g, dir, s, t) == LeastFrom(g, dir, s, NumVertices)[t]

Opposite(dir) == IF dir = "Forward" THEN "Reverse" ELSE "Forward"

\* the least cost from every vertex to t in direction dir
LeastTo(g, dir, t) == LeastFrom(g, Opposite(dir), t, NumVertices)

\* the tables that never exceed the least cost to the destination
AdmissibleTables(toDest) ==
    { hh \in [VertexIds -> 0..MaxH] : \A v \in VertexIds : hh[v] <= toDest[v] }

\* h(destination) = 0 and h(u) <= cost(u, v) + h(v) along every edge searched
Consistent(g, dir, t, hh) ==
    /\ hh[t] = 0
    /\ \A k \in DOMAIN g.edges :
         LET a == IF dir = "Forward" THEN g.edges[k].src_vertex_id ELSE g.edges[k].dst_vertex_id
             b == IF dir = "Forward" THEN g.edges[k].dst_vertex_id ELSE g.edges[k].src_vertex_id
         IN  hh[a] <= g.edges[k].distance + hh[b]

Init ==
    /\ graph \in Graphs
    /\ origin = 0
    /\ destination = NumVertices - 1
    /\ direction \in {"Forward"}
    /\ \E toDest \in { LeastTo(graph, direction, destination) } : h \in AdmissibleTables(toDest)
    /\ frontier = { [f |-> h[origin], g |-> 0, v |-> origin] }
    /\ tree = <<>>
    /\ settled = {}
    /\ pc = "searching"
    /\ result = <<>>
    /\ IdleRF /\ IdleSM /\ IdleAgg /\ IdleInterp /\ IdleCall

\* one pass of the frontier loop: pop the first entry; the destination ends
\* the search, any other vertex is expanded and settled
Expand ==
    /\ pc = "searching"
    /\ frontier # {}
    /\ \E ent \in frontier :
         /\ IsFirst(ent, frontier)
         /\ IF ent.v = destination
            THEN /\ pc' = "done"
                 /\ result' = Route(tree, origin, destination, NumVertices)
                 /\ frontier' = frontier \ {ent}
                 /\ UNCHANGED <<tree, settled>>
            ELSE LET inc == incident_edges(graph, ent.v, direction) IN
                 IF ~inc.ok
                 THEN /\ pc' = "error"
                      /\ UNCHANGED <<result, frontier, tree, settled>>
                 ELSE \E edge_ids \in KeyOrders(inc.val) :
                        LET trips == incident_triplets(graph, ent.v, direction, edge_ids) IN
                        IF ~trips.ok
                        THEN /\ pc' = "error"
                             /\ UNCHANGED <<result, frontier, tree, settled>>
                        ELSE LET r == Relax(graph, trips.val, 1, ent.g, settled,
                                            tree, frontier \ {ent})
                             IN  /\ tree' = r.tree
                                 /\ frontier' = r.frontier
                                 /\ settled' = settled \cup {ent.v}
                                 /\ UNCHANGED <<pc, result>>
    /\ UNCHANGED <<graph, h, origin, destination, direction>>
    /\ UNCHANGED <<rfVars, smVars, aggVars, interpVars, callVars>>

\* the frontier emptied without reaching the destination
NoPathExists ==
    /\ pc = "searching"
    /\ frontier = {}
    /\ pc' = "nopath"
    /\ UNCHANGED <<graph, h, origin, destination, direction, frontier, tree, settled, result>>
    /\ UNCHANGED <<rfVars, smVars, aggVars, interpVars, callVars>>

Next == Expand \/ NoPathExists

Spec == Init /\ [][Next]_vars

\* C1 (as stated): with any admissible h, the route cost returned equals the
\* least path cost from origin to destination (what the search returns with
\* h = 0).
C1_AdmissibleOptimal ==
    pc = "done" => RouteCost(result) = Least(graph, direction, origin, destination)

\* C1 (amended): with a consistent h (h(destination) = 0 and
\* h(u) <= cost(u, v) + h(v) on every edge), the route cost returned equals
\* the least path cost from origin to destination.
C1_ConsistentOptimal ==
    (pc = "done" /\ Consistent(graph, direction, destination, h))
        => RouteCost(result) = Least(graph, direction, origin, destination)

\* a search guided by a consistent, non-zero h that returned a two-edge
\* route although a one-edge route of higher cost exists
C1_Witness ==
    /\ pc = "done"
    /\ Consistent(graph, direction, destination, h)
    /\ \E v \in VertexIds : h[v] > 0
    /\ Len(result) = 2
    /\ \E k \in DOMAIN graph.edges :
         /\ graph.edges[k].src_vertex_id = origin
         /\ graph.edges[k].dst_vertex_id # destination
         /\ graph.edges[k].distance > 0

(***************************************************************************)
(* RouteERandomForestModel                                                 *)
(* (compass-powertrain/src/routee/routee_random_forest.rs)                 *)
(*                                                                         *)
(* Numbers: speeds are held in hundredths of a mile per hour (or of a      *)
(* kilometre per hour), grades in percent, lengths in miles, energy rates  *)
(* and energies in hundredths of a gallon.                                 *)
(***************************************************************************)

F64Max       == 1000000  \* stands for std::f64::MAX: above every rate
SweepSpeedLo == 1        \* for speed_mph in 1..100
SweepSpeedHi == 99
SweepGradeLo == -20      \* for grade_percent in -20..20
SweepGradeHi == 19

\* the f64 values +infinity, -infinity and NaN, and the f64 operations on
\* them.  F64Max and -F64Max stand for f64::MAX and f64::MIN; every other
\* integer is the finite value it names, far below f64::MAX, and so are the
\* sums and products of such values.  A product overflows to the infinity of
\* its sign only when one factor is f64::MAX and the other is beyond 1; in a
\* sum f64::MAX absorbs every other finite value.
F64Infinity == 2000 * F64Max
F64NaN      == F64Infinity + 1
IsInfinite(a) == a = F64Infinity \/ a = 0 - F64Infinity
IsFinite(a) == ~IsInfinite(a) /\ a # F64NaN
IsMax(a) == a = F64Max \/ a = 0 - F64Max
f64_mul(a, b) ==
    IF a = F64NaN \/ b = F64NaN THEN F64NaN
    ELSE IF IsInfinite(a) \/ IsInfinite(b)
         THEN (IF a = 0 \/ b = 0 THEN F64NaN
               ELSE IF (a < 0) # (b < 0) THEN 0 - F64Infinity ELSE F64Infinity)
    ELSE IF (IsMax(a) /\ (b > 1 \/ b < -1)) \/ (IsMax(b) /\ (a > 1 \/ a < -1))
         THEN (IF (a < 0) # (b < 0) THEN 0 - F64Infinity ELSE F64Infinity)
    ELSE a * b
f64_add(a, b) ==
    IF a = F64NaN \/ b = F64NaN THEN F64NaN
    ELSE IF IsInfinite(a) /\ IsInfinite(b) THEN (IF a = b THEN a ELSE F64NaN)
    ELSE IF IsInfinite(a) THEN a
    ELSE IF IsInfinite(b) THEN b
    ELSE IF a = F64Max /\ b = F64Max THEN F64Infinity
    ELSE IF a = 0 - F64Max /\ b = 0 - F64Max THEN 0 - F64Infinity
    ELSE IF IsMax(a) THEN (IF b = 0 - a THEN 0 ELSE a)
    ELSE IF IsMax(b) THEN b
    ELSE a + b
\* a < b: false when either side is NaN
f64_lt(a, b) == a # F64NaN /\ b # F64NaN /\ a < b

\* Velocity::new::<kilometer_per_hour>(v).get::<mile_per_hour>(): 1 mile is
\* 1.609344 km, so 1 kph = 1000000 / 1609344 = 15625 / 25146 mph
\* (0.621371192...); the speed in whole hundredths of a mile per hour, which
\* compares with every split held in hundredths as the f64 value does
kph_to_mph(speed_kph) == (speed_kph * 15625) \div 25146

\* routee_model.predict(&x) on a matrix of one row [speed_mph, grade_percent]:
\* the vector of one energy rate per mile, or Failed when the row has not the
\* number of columns the regressor was trained on.  The regressor is a tree
\* over the two features; a tree with one split per feature is piecewise
\* constant on four boxes.
predict(routee_model, x) ==
    IF Len(x) # routee_model.features THEN Err("Failed")
    ELSE Ok(<< routee_model.leaf[<< IF x[1] < routee_model.speed_split THEN 0 ELSE 1,
                                    IF x[2] < routee_model.grade_split THEN 0 ELSE 1 >>] >>)

\* the constructor's sweep: the least rate over the integer speeds and grades;
\* a rate that is not below the running minimum (NaN, +infinity) is passed over
minimum_energy_sweep(routee_model) ==
    LET rates == { r \in { predict(routee_model, <<speed_mph * 100, grade_percent>>).val[1] :
                             speed_mph \in SweepSpeedLo..SweepSpeedHi,
                             grade_percent \in SweepGradeLo..SweepGradeHi } :
                     f64_lt(r, F64Max) } \cup {F64Max}
    IN  CHOOSE m \in rates : \A r \in rates : m <= r

\* RouteERandomForestModel::new, after the model file has been read: the
\* first prediction of the sweep that fails ends it with PredictionModel
RouteERandomForestModel_new(velocity_model, routee_model) ==
    IF \E speed_mph \in SweepSpeedLo..SweepSpeedHi, grade_percent \in SweepGradeLo..SweepGradeHi :
          ~predict(routee_model, <<speed_mph * 100, grade_percent>>).ok
    THEN Err("PredictionModel")
    ELSE Ok([ velocity_model          |-> velocity_model,
              routee_model            |-> routee_model,
              energy_unit             |-> "GallonsGasoline",
              minimum_energy_per_mile |-> minimum_energy_sweep(routee_model) ])

\* vec![StateVar(0.0)]
rf_initial_state == << 0 >>

\* coord_distance_km(src, dst) read in miles: the vertices lie on a line,
\* coordinate is the position in miles
coord_distance_miles(src, dst) ==
    IF src.coordinate >= dst.coordinate
    THEN src.coordinate - dst.coordinate
    ELSE dst.coordinate - src.coordinate

cost_estimate(m, src, dst, state) ==
    LET distance_miles == coord_distance_miles(src, dst)
        minimum_energy == f64_mul(distance_miles, m.minimum_energy_per_mile)
    IN  Ok(minimum_energy)

\* velocity_model.traversal_cost: the edge's speed from the lookup table, in
\* kph, as total_cost; an edge id the table does not hold is an error
velocity_traversal_cost(velocity_model, src, edge, dst, state) ==
    IF edge.edge_id + 1 \in DOMAIN velocity_model
    THEN Ok([total_cost |-> velocity_model[edge.edge_id + 1], updated_state |-> state])
    ELSE Err("MissingIdInTabularCostFunction")

\* lines 51-64 of traversal_cost: energy_per_mile[0] * distance_mile before
\* the clamp, or the error of the speed lookup or of the predictor
predicted_energy(m, src, edge, dst, state) ==
    LET speed_result == velocity_traversal_cost(m.velocity_model, src, edge, dst, state) IN
    IF ~speed_result.ok THEN speed_result
    ELSE LET speed_kph       == speed_result.val.total_cost
             distance_mile   == edge.distance
             grade_percent   == edge.grade
             speed_mph       == kph_to_mph(speed_kph)
             energy_per_mile == predict(m.routee_model, <<speed_mph, grade_percent>>)
         IN  IF ~energy_per_mile.ok THEN Err("PredictionModel")
             ELSE Ok(f64_mul(energy_per_mile.val[1], distance_mile))

\* a mutant: the negative prediction is not clamped
traversal_cost_no_clamp(m, src, edge, dst, state) ==
    LET raw == predicted_energy(m, src, edge, dst, state) IN
    IF ~raw.ok THEN raw
    ELSE LET energy_cost == raw.val IN
         IF Len(state) = 0 THEN IndexPanic
         ELSE Ok([ total_cost    |-> energy_cost,
                   updated_state |-> [state EXCEPT ![1] = f64_add(state[1], energy_cost)] ])

\* the two ? exits come first; updated_state[0] = state[0] + .. (line 70)
\* indexes the state vector and panics when it is empty
traversal_cost(m, src, edge, dst, state) ==
    LET raw == predicted_energy(m, src, edge, dst, state) IN
    IF ~raw.ok THEN raw
    ELSE LET energy_cost == IF f64_lt(raw.val, 0) THEN 0 ELSE raw.val IN
         IF Len(state) = 0 THEN IndexPanic
         ELSE Ok([ total_cost    |-> energy_cost,
                   updated_state |-> [state EXCEPT ![1] = f64_add(state[1], energy_cost)] ])

\* ---- the road the model is run on -------------------------------------
MaxPath == 3

RFVertices ==
    << [vertex_id |-> 0, coordinate |-> 0],
       [vertex_id |-> 1, coordinate |-> 1],
       [vertex_id |-> 2, coordinate |-> 3] >>

RFEdges ==
    << [edge_id |-> 0, src_vertex_id |-> 0, dst_vertex_id |-> 1, distance |-> 1, grade |-> 0],
       [edge_id |-> 1, src_vertex_id |-> 1, dst_vertex_id |-> 2, distance |-> 2, grade |-> -25],
       [edge_id |-> 2, src_vertex_id |-> 0, dst_vertex_id |-> 2, distance |-> 3, grade |-> 3],
       [edge_id |-> 3, src_vertex_id |-> 2, dst_vertex_id |-> 1, distance |-> 2, grade |-> 25],
       [edge_id |-> 4, src_vertex_id |-> 1, dst_vertex_id |-> 0, distance |-> 2, grade |-> 0],
       [edge_id |-> 5, src_vertex_id |-> 2, dst_vertex_id |-> 0, distance |-> 3, grade |-> 0] >>

\* speed per edge id, in hundredths of a kph: 50, 50, 170, 50 and 0.8 kph;
\* the table has no speed for edge 5
RFVelocities == << 5000, 5000, 17000, 5000, 80 >>

Rates == {-1, 1, 2}

\* regressors over [speed_mph, grade_percent], and one trained on three
\* features, which new rejects
RouteEModels ==
    [ features    : {2},
      speed_split : {50 * 100, 100 * 100},
      grade_split : {-20, 0},
      leaf        : [ {0, 1} \X {0, 1} -> Rates ] ]
    \cup
    { [ features |-> 3, speed_split |-> 50 * 100, grade_split |-> 0,
        leaf |-> [ b \in {0, 1} \X {0, 1} |-> 1 ] ] }

\* the models new returns for a set of regressors
Constructed(models) ==
    { r.val : r \in { n \in { RouteERandomForestModel_new(RFVelocities, t) : t \in models } : n.ok } }

\* the states a caller hands to the first traversal_cost: the model's
\* initial state, and an empty vector
RFStartStates == { rf_initial_state, <<>> }

InitRF ==
    /\ rf \in Constructed(RouteEModels)
    /\ rfAt = [start |-> 0, cur |-> 0, steps |-> 0]
    /\ rfState \in RFStartStates
    /\ rfLast = [kind |-> "new", pred |-> 0, total_cost |-> 0, before |-> rfState]
    /\ rfSum = 0
    /\ IdleSearch /\ IdleSM /\ IdleAgg /\ IdleInterp /\ IdleCall

\* the search crosses an edge that leaves the vertex reached.  A call that
\* returns Ok moves the search to the edge's end with the updated state; a
\* call that fails leaves the search where it was.  rfLast holds the result
\* res, the prediction before the clamp (energy, pred) and the state before.
TraversalCost ==
    /\ rfAt.steps < MaxPath
    /\ \E k \in DOMAIN RFEdges :
         /\ RFEdges[k].src_vertex_id = rfAt.cur
         /\ LET edge   == RFEdges[k]
                src    == RFVertices[edge.src_vertex_id + 1]
                dst    == RFVertices[edge.dst_vertex_id + 1]
                r      == traversal_cost(rf, src, edge, dst, rfState)
                energy == predicted_energy(rf, src, edge, dst, rfState)
            IN  IF r.ok
                THEN /\ rfState' = r.val.updated_state
                     /\ rfSum' = f64_add(rfSum, r.val.total_cost)
                     /\ rfLast' = [kind |-> "traversal_cost", pred |-> energy.val,
                                   total_cost |-> r.val.total_cost, before |-> rfState,
                                   energy |-> energy, res |-> r]
                     /\ rfAt' = [rfAt EXCEPT !.cur = edge.dst_vertex_id, !.steps = @ + 1]
                ELSE /\ rfLast' = [kind |-> "traversal_cost_failed", before |-> rfState,
                                   energy |-> energy, res |-> r]
                     /\ rfAt' = [rfAt EXCEPT !.steps = @ + 1]
                     /\ UNCHANGED <<rfState, rfSum>>
    /\ UNCHANGED rf
    /\ UNCHANGED <<searchVars, smVars, aggVars, interpVars, callVars>>

\* the search asks for the estimate from the vertex reached to a destination
CostEstimate ==
    /\ \E v \in 0..(Len(RFVertices) - 1) :
         LET r == cost_estimate(rf, RFVertices[rfAt.cur + 1], RFVertices[v + 1], rfState)
         IN  /\ r.ok
             /\ rfLast' = [kind |-> "cost_estimate", pred |-> v,
                           total_cost |-> r.val, before |-> rfState]
    /\ UNCHANGED <<rf, rfAt, rfState, rfSum>>
    /\ UNCHANGED <<searchVars, smVars, aggVars, interpVars, callVars>>

\* a new path starts at the vertex reached, in the state initial_state
\* returns
StartPath ==
    /\ rfAt.steps > 0
    /\ rfAt.start # rfAt.cur
    /\ rfAt' = [rfAt EXCEPT !.start = rfAt.cur]
    /\ rfState' = rf_initial_state
    /\ rfLast' = [kind |-> "initial_state", pred |-> 0, total_cost |-> 0,
                  before |-> rfState]
    /\ rfSum' = 0
    /\ UNCHANGED rf
    /\ UNCHANGED <<searchVars, smVars, aggVars, interpVars, callVars>>

NextRF == TraversalCost \/ CostEstimate \/ StartPath

SpecRF == InitRF /\ [][NextRF]_vars

TraversalCalls == {"traversal_cost", "traversal_cost_failed"}

\* C2: the estimate between the path's first vertex and the vertex reached,
\* taken in any state, never exceeds the sum of the total_cost values
\* returned along the path.
C2_Admissible ==
    \A s \in {rfState, rf_initial_state} :
        cost_estimate(rf, RFVertices[rfAt.start + 1], RFVertices[rfAt.cur + 1], s).val <= rfSum

\* C3: every Cost the model returns is non-negative.
C3_NonNegative ==
    rfLast.kind \in {"traversal_cost", "cost_estimate"} => rfLast.total_cost >= 0

\* C3, the traversal_cost half alone (holds): total_cost >= 0.
C3_TraversalNonNegative ==
    rfLast.kind = "traversal_cost" => rfLast.total_cost >= 0

\* max(0, a) and a >= b on f64 values: f64::max passes over a NaN, and a
\* comparison with NaN is false
f64_max0(a) == IF a = F64NaN THEN 0 ELSE Max2(0, a)
f64_ge(a, b) == a # F64NaN /\ b # F64NaN /\ a >= b

\* C4: a traversal_cost call on a state that has a slot 0, for an edge the
\* predictor gives an energy for, succeeds; it adds max(0, predicted energy)
\* to state[0] and reports it as total_cost; state[0] never decreases, and a
\* negative prediction leaves it unchanged with total_cost 0.
C4_ClampedAccumulation ==
    /\ (rfLast.kind \in TraversalCalls /\ rfLast.energy.ok /\ Len(rfLast.before) > 0)
           => rfLast.res.ok
    /\ rfLast.kind = "traversal_cost" =>
        /\ rfState[1] = f64_add(rfLast.before[1], f64_max0(rfLast.pred))
        /\ rfLast.total_cost = f64_max0(rfLast.pred)
        /\ f64_ge(rfState[1], rfLast.before[1])
        /\ (f64_lt(rfLast.pred, 0) => rfState[1] = rfLast.before[1] /\ rfLast.total_cost = 0)
        /\ Len(rfState) = Len(rfLast.before)

\* C4 for a prediction and an accumulated energy that are finite numbers
\* (holds)
C4_ClampedAccumulationFinite ==
    (/\ rfLast.kind \in TraversalCalls
     /\ rfLast.energy.ok /\ IsFinite(rfLast.energy.val)
     /\ \A i \in DOMAIN rfLast.before : IsFinite(rfLast.before[i]))
        => C4_ClampedAccumulation

\* an edge with a negative prediction crossed after energy has accumulated
C4_WitnessClamped ==
    /\ rfLast.kind = "traversal_cost"
    /\ rfLast.pred < 0
    /\ rfLast.before[1] > 0
    /\ rfState = rfLast.before

\* the calls that fail: no speed for the edge, and an empty state vector
RF_WitnessNoSpeed ==
    /\ rfLast.kind = "traversal_cost_failed"
    /\ rfLast.res = Err("MissingIdInTabularCostFunction")
    /\ rfState = rfLast.before
RF_WitnessEmptyState ==
    /\ rfLast.kind = "traversal_cost_failed"
    /\ rfLast.before = <<>>
    /\ rfLast.energy.ok
    /\ rfLast.res = IndexPanic
    /\ rfState = <<>>

(***************************************************************************)
(* binary64.  A StateVar, and every quantity the accessors take and        *)
(* return, is an f64, and every f64 operation rounds its exact result to   *)
(* the nearest value with 53 significant bits, ties to the even            *)
(* significand.  A binary64 value is                                       *)
(*   [s |-> sign, m |-> significand, e |-> exponent],                      *)
(* the number s * m * 2^e with 2^52 <= m < 2^53; zero is                   *)
(* [s |-> 0, m |-> <<0>>, e |-> 0].  A significand is a natural number     *)
(* held as its digits in base 2^13, lowest digit first, without high       *)
(* zeros.  The exponents of the quantities of a state vector are far from  *)
(* the limits of f64: there is no overflow and no subnormal value.         *)
(***************************************************************************)
LimbBits == 13
LimbBase == 2^LimbBits

\* the digits of the natural number that is the sum of
\* cols[i] * LimbBase^(i-1); a column may exceed a digit or be negative
Carried(cols) ==
    LET n == Len(cols) + 3
        C[i \in 0..n] == IF i = 0 THEN 0 ELSE (Coef(cols, i) + C[i - 1]) \div LimbBase
    IN  Trim([ i \in 1..n |-> (Coef(cols, i) + C[i - 1]) % LimbBase ])

BigMul(a, b) ==
    LET S[k \in 1..(Len(a) + Len(b)), i \in 0..Len(a)] ==
            IF i = 0 THEN 0 ELSE S[k, i - 1] + a[i] * Coef(b, k + 1 - i)
    IN  Carried([ k \in 1..(Len(a) + Len(b)) |-> S[k, Len(a)] ])

\* a * 2^k and the whole part of a / 2^k
ShiftLeft(a, k) ==
    LET q == k \div LimbBits
        r == k % LimbBits
    IN  Carried([ i \in 1..(Len(a) + q) |-> IF i <= q THEN 0 ELSE a[i - q] * 2^r ])

ShiftRight(a, k) ==
    LET q == k \div LimbBits
        r == k % LimbBits
    IN  Trim([ i \in 1..Max2(Len(a) - q, 0) |->
                 (a[i + q] \div 2^r) + (Coef(a, i + q + 1) % 2^r) * 2^(LimbBits - r) ])

\* bit j of a (bit 0 is the lowest), and whether every bit below j is 0
BitAt(a, j) == (Coef(a, j \div LimbBits + 1) \div 2^(j % LimbBits)) % 2

BelowIsZero(a, j) ==
    /\ \A i \in 1..(j \div LimbBits) : Coef(a, i) = 0
    /\ Coef(a, j \div LimbBits + 1) % 2^(j % LimbBits) = 0

BitLength(a) ==
    IF a = <<0>> THEN 0
    ELSE LimbBits * (Len(a) - 1)
           + (CHOOSE k \in 1..LimbBits : 2^(k - 1) <= a[Len(a)] /\ a[Len(a)] < 2^k)

BigLess(a, b) ==
    \/ Len(a) < Len(b)
    \/ /\ Len(a) = Len(b)
       /\ \E i \in DOMAIN a : a[i] < b[i] /\ \A j \in (i + 1)..Len(a) : a[j] = b[j]

ToInt(a) ==
    LET S[i \in 0..Len(a)] == IF i = 0 THEN 0 ELSE S[i - 1] + a[i] * LimbBase^(i - 1)
    IN  S[Len(a)]

Zero64 == [s |-> 0, m |-> <<0>>, e |-> 0]

\* the f64 nearest to s * n * 2^e: the 53 highest bits of n, one more in the
\* last place when the bits cut off are more than half of it, or are half of
\* it and the last place is odd
binary64_round(s, n, e) ==
    IF s = 0 \/ n = <<0>> THEN Zero64
    ELSE LET bits == BitLength(n) IN
         IF bits <= 53
         THEN [s |-> s, m |-> ShiftLeft(n, 53 - bits), e |-> e - (53 - bits)]
         ELSE LET k  == bits - 53
                  q  == ShiftRight(n, k)
                  up == BitAt(n, k - 1) = 1 /\ (~BelowIsZero(n, k - 1) \/ BitAt(n, k) = 1)
                  r  == IF up THEN Carried([q EXCEPT ![1] = @ + 1]) ELSE q
              IN  IF BitLength(r) > 53
                  THEN [s |-> s, m |-> ShiftRight(r, 1), e |-> e + k + 1]
                  ELSE [s |-> s, m |-> r, e |-> e + k]

\* a * b and a + b of f64
binary64_mul(a, b) == binary64_round(a.s * b.s, BigMul(a.m, b.m), a.e + b.e)

binary64_add(a, b) ==
    IF a.s = 0 THEN b
    ELSE IF b.s = 0 THEN a
    ELSE LET e == Min2(a.e, b.e)
             x == ShiftLeft(a.m, a.e - e)
             y == ShiftLeft(b.m, b.e - e)
             n == Max2(Len(x), Len(y))
         IN  IF a.s = b.s
             THEN binary64_round(a.s, Carried([ i \in 1..n |-> Coef(x, i) + Coef(y, i) ]), e)
             ELSE IF x = y THEN Zero64
             ELSE IF BigLess(x, y)
             THEN binary64_round(b.s, Carried([ i \in 1..n |-> Coef(y, i) - Coef(x, i) ]), e)
             ELSE binary64_round(a.s, Carried([ i \in 1..n |-> Coef(x, i) - Coef(y, i) ]), e)

binary64_neg(a) == [a EXCEPT !.s = 0 - @]

\* the f64 nearest to a / b for integers a and 0 < b < 2^18: the quotient of
\* a * 2^78 by b, digit by digit from the highest, with one bit more that
\* tells whether a remainder was left
binary64_of_ratio(a, b) ==
    IF a = 0 THEN Zero64
    ELSE LET num == ShiftLeft(Carried(<<IF a < 0 THEN 0 - a ELSE a>>), 6 * LimbBits)
             digits == Len(num)
             D[i \in 0..digits] ==
                 IF i = 0 THEN 0 ELSE (D[i - 1] * LimbBase + num[digits - i + 1]) % b
             q == [ j \in 1..digits |-> (D[digits - j] * LimbBase + num[j]) \div b ]
             sticky == IF D[digits] > 0 THEN 1 ELSE 0
         IN  binary64_round(IF a < 0 THEN -1 ELSE 1,
                            Carried([ j \in 1..digits |-> 2 * q[j] + (IF j = 1 THEN sticky ELSE 0) ]),
                            0 - 6 * LimbBits - 1)

\* `a as i64`: the whole part of a, toward zero
binary64_trunc(a) ==
    IF a.s = 0 THEN 0
    ELSE a.s * ToInt(IF a.e >= 0 THEN ShiftLeft(a.m, a.e) ELSE ShiftRight(a.m, 0 - a.e))

\* |a - b| <= 2^-bits * |b|
binary64_within(a, b, bits) ==
    LET d == binary64_add(a, binary64_neg(b)) IN
    \/ d.s = 0
    \/ /\ b.s # 0
       /\ \/ d.e + bits < b.e
          \/ d.e + bits = b.e /\ ~BigLess(b.m, d.m)

\* the f64 of a decimal with three places, given as n thousandths: the f64
\* nearest to n / 1000, as a literal is read
quantity(n) == binary64_of_ratio(n, 1000)

(***************************************************************************)
(* StateModel (routee-compass-core/src/model/state/state_model.rs)         *)
(*                                                                         *)
(* A feature name is a number: the names are compared as the strings are,  *)
(* name 1 < name 2 < ...  An entry (String, StateFeature) is a pair        *)
(* <<name, feature>>.  A StateModel is                                     *)
(*   [variant |-> "OneFeature" .. "FourFeatures", k |-> <<k1, ..>>,        *)
(*    v |-> <<v1, ..>>, f |-> <<>>]                                        *)
(*   [variant |-> "NFeatures", k |-> <<>>, v |-> <<>>,                     *)
(*    f |-> the HashMap name -> IndexedStateFeature]                       *)
(* A StateVar wraps an f64: a state vector is a sequence of binary64       *)
(* values.  The arguments of the calls and the initial values of the       *)
(* features are decimals with three places, written as the whole number n  *)
(* of thousandths and read as the f64 quantity(n).                         *)
(***************************************************************************)

StateFeature(type, unit, initial) == [type |-> type, unit |-> unit, initial |-> initial]

IndexedStateFeature(index, feature) == [index |-> index, feature |-> feature]

\* StateFeature::get_initial: the initial value encoded as a StateVar (the
\* f64 of the declared decimal); an
\* unsigned codec cannot encode a negative initial value
get_initial(feature) ==
    IF feature.type = "Custom" /\ feature.unit = "unsigned_integer" /\ feature.initial < 0
    THEN Err("CodecError")
    ELSE Ok(quantity(feature.initial))

\* sorted_by_key(|(n, _)| n.clone()): a stable sort by name; InsertByName puts
\* x behind the entries whose name is not greater
RECURSIVE InsertByName(_, _)
InsertByName(sorted, x) ==
    IF sorted = <<>> THEN <<x>>
    ELSE IF sorted[Len(sorted)][1] <= x[1] THEN Append(sorted, x)
    ELSE Append(InsertByName(SubSeq(sorted, 1, Len(sorted) - 1), x), sorted[Len(sorted)])

RECURSIVE sorted_by_key(_)
sorted_by_key(features) ==
    IF features = <<>> THEN <<>>
    ELSE InsertByName(sorted_by_key(SubSeq(features, 1, Len(features) - 1)),
                      features[Len(features)])

StateModel_empty == [variant |-> "NFeatures", k |-> <<>>, v |-> <<>>, f |-> <<>>]

\* the last arm of new: enumerate the sorted list and collect it into a
\* HashMap; a later pair with the same name replaces the earlier one
n_features(sorted) ==
    [ variant |-> "NFeatures", k |-> <<>>, v |-> <<>>,
      f |-> [ name \in { sorted[i][1] : i \in DOMAIN sorted } |->
                LET last == CHOOSE i \in DOMAIN sorted :
                              /\ sorted[i][1] = name
                              /\ \A j \in DOMAIN sorted : sorted[j][1] = name => j <= i
                IN  IndexedStateFeature(last - 1, sorted[last][2]) ] ]

VariantOf(n) ==
    CASE n = 1 -> "OneFeature" [] n = 2 -> "TwoFeatures"
      [] n = 3 -> "ThreeFeatures" [] n = 4 -> "FourFeatures"

\* a mutant: the list is enumerated in the order given
StateModel_new_unsorted(features) ==
    LET sorted == features IN
    IF Len(sorted) = 0 THEN StateModel_empty
    ELSE IF Len(sorted) <= 4
    THEN [ variant |-> VariantOf(Len(sorted)),
           k |-> [ i \in DOMAIN sorted |-> sorted[i][1] ],
           v |-> [ i \in DOMAIN sorted |-> sorted[i][2] ],
           f |-> <<>> ]
    ELSE n_features(sorted)

StateModel_new(features) ==
    LET sorted == sorted_by_key(features) IN
    IF Len(sorted) = 0 THEN StateModel_empty
    ELSE IF Len(sorted) <= 4
    THEN [ variant |-> VariantOf(Len(sorted)),
           k |-> [ i \in DOMAIN sorted |-> sorted[i][1] ],
           v |-> [ i \in DOMAIN sorted |-> sorted[i][2] ],
           f |-> <<>> ]
    ELSE n_features(sorted)

len(m) ==
    CASE m.variant = "OneFeature"    -> 1
      [] m.variant = "TwoFeatures"   -> 2
      [] m.variant = "ThreeFeatures" -> 3
      [] m.variant = "FourFeatures"  -> 4
      [] m.variant = "NFeatures"     -> Cardinality(DOMAIN m.f)

\* ---- InternalStateModelOps ---------------------------------------------
\* the index of the feature called `name`: the first key that equals it
get_index(m, name) ==
    IF m.variant = "NFeatures"
    THEN IF name \in DOMAIN m.f THEN Ok(m.f[name].index) ELSE Err("UnknownFeature")
    ELSE IF \E i \in DOMAIN m.k : m.k[i] = name
         THEN Ok((CHOOSE i \in DOMAIN m.k :
                    m.k[i] = name /\ \A j \in DOMAIN m.k : m.k[j] = name => i <= j) - 1)
         ELSE Err("UnknownFeature")

\* the (name, feature) pair stored at a state-vector index
get(m, index) ==
    IF m.variant = "NFeatures"
    THEN IF \E name \in DOMAIN m.f : m.f[name].index = index
         THEN LET name == CHOOSE name \in DOMAIN m.f : m.f[name].index = index
              IN  Ok(<<name, m.f[name].feature>>)
         ELSE Err("UnknownFeatureIndex")
    ELSE IF index + 1 \in DOMAIN m.k
         THEN Ok(<<m.k[index + 1], m.v[index + 1]>>)
         ELSE Err("UnknownFeatureIndex")

get_feature(m, name) ==
    IF m.variant = "NFeatures"
    THEN IF name \in DOMAIN m.f THEN Ok(m.f[name].feature) ELSE Err("UnknownFeature")
    ELSE LET idx == get_index(m, name) IN
         IF idx.ok THEN Ok(m.v[idx.val + 1]) ELSE idx

contains_key(m, name) == get_index(m, name).ok

\* StateModelIter::next from `index` on: stops at len() or at the first
\* index that get does not find
RECURSIVE iter_from(_, _)
iter_from(m, index) ==
    IF index >= len(m) THEN <<>>
    ELSE LET tuple == get(m, index) IN
         IF tuple.ok THEN <<tuple.val>> \o iter_from(m, index + 1) ELSE <<>>

iter(m) == iter_from(m, 0)

to_vec(m) ==
    LET it == iter(m) IN
    [ i \in DOMAIN it |-> <<it[i][1], IndexedStateFeature(i - 1, it[i][2])>> ]

\* the entries of the map in ascending index order
RECURSIVE sorted_by_index(_, _)
sorted_by_index(f, names) ==
    IF names = {} THEN <<>>
    ELSE LET first == CHOOSE n \in names : \A o \in names : f[n].index <= f[o].index
         IN  <<<<first, f[first]>>>> \o sorted_by_index(f, names \ {first})

into_iter(m) ==
    IF m.variant = "NFeatures"
    THEN sorted_by_index(m.f, DOMAIN m.f)
    ELSE [ i \in DOMAIN m.k |-> <<m.k[i], IndexedStateFeature(i - 1, m.v[i])>> ]

initial_state(m) ==
    LET it == iter(m) IN
    IF \E i \in DOMAIN it : ~get_initial(it[i][2]).ok
    THEN get_initial(it[CHOOSE i \in DOMAIN it :
                          /\ ~get_initial(it[i][2]).ok
                          /\ \A j \in DOMAIN it : ~get_initial(it[j][2]).ok => i <= j][2])
    ELSE Ok([ i \in DOMAIN it |-> get_initial(it[i][2]).val ])

SelectSeq2(seq, keep) ==
    LET F[i \in 0..Len(seq)] ==
          IF i = 0 THEN <<>>
          ELSE IF seq[i][1] \in keep THEN Append(F[i - 1], seq[i]) ELSE F[i - 1]
    IN  F[Len(seq)]

extend(m, entries) ==
    LET overwrite_keys == { entries[i][1] : i \in { i \in DOMAIN entries :
                                                     get_feature(m, entries[i][1]).ok } }
        kept           == SelectSeq2(iter(m), { x[1] : x \in { iter(m)[i] : i \in DOMAIN iter(m) } }
                                                \ overwrite_keys)
        all_features   == kept \o entries
    IN  Ok(StateModel_new(all_features))

\* ---- units ----------------------------------------------------------------
\* the size of a unit in a common measure of its dimension (8 mm, 1 s, 10 Wh):
\* 1 mile = 1609.344 m, 1 hour = 3600 s, 1 gallon of gasoline = 33.41 kWh
UnitFactor(unit) ==
    CASE unit = "Meters"          -> 125
      [] unit = "Kilometers"      -> 125000
      [] unit = "Miles"           -> 201168
      [] unit = "Seconds"         -> 1
      [] unit = "Hours"           -> 3600
      [] unit = "KilowattHours"   -> 100
      [] unit = "GallonsGasoline" -> 3341

\* a / b rounded to the nearest integer (b > 0)
RoundDiv(a, b) ==
    IF a >= 0 THEN (a + b \div 2) \div b ELSE 0 - (((0 - a) + b \div 2) \div b)

\* DistanceUnit / TimeUnit / EnergyUnit ::convert(value, to_unit): one f64
\* multiplication by the f64 quotient of the two unit sizes; a unit converts
\* to itself unchanged
convert(from_unit, value, to_unit) ==
    IF from_unit = to_unit THEN value
    ELSE binary64_mul(value, binary64_of_ratio(UnitFactor(from_unit), UnitFactor(to_unit)))

\* StateFeature::get_distance_unit / get_time_unit / get_energy_unit
get_distance_unit(feature) ==
    IF feature.type = "Distance" THEN Ok(feature.unit) ELSE Err("IncompatibleFeatureType")
get_time_unit(feature) ==
    IF feature.type = "Time" THEN Ok(feature.unit) ELSE Err("IncompatibleFeatureType")
get_energy_unit(feature) ==
    IF feature.type = "Energy" THEN Ok(feature.unit) ELSE Err("IncompatibleFeatureType")

\* ---- InternalStateModelOps on a state vector ---------------------------
get_value(m, state, name) ==
    LET idx == get_index(m, name) IN
    IF ~idx.ok THEN idx
    ELSE IF Len(state) # len(m) \/ idx.val >= Len(state) THEN Err("StateVectorSizeMismatch")
    ELSE Ok(state[idx.val + 1])

\* UpdateOperation::Replace keeps the new value
perform_operation(op, prev, value) == IF op = "Replace" THEN value ELSE prev

\* the vector after the update, or the error; an error leaves the vector as
\* it was
update_state(m, state, name, value, op) ==
    LET idx == get_index(m, name) IN
    IF ~idx.ok THEN idx
    ELSE IF Len(state) # len(m) \/ idx.val >= Len(state) THEN Err("StateVectorSizeMismatch")
    ELSE Ok([state EXCEPT ![idx.val + 1] = perform_operation(op, state[idx.val + 1], value)])

\* ---- typed getters --------------------------------------------------------
get_distance(m, state, name, unit) ==
    LET value   == get_value(m, state, name)
        feature == get_feature(m, name)
    IN  IF ~value.ok THEN value
        ELSE IF ~feature.ok THEN feature
        ELSE IF ~get_distance_unit(feature.val).ok THEN get_distance_unit(feature.val)
        ELSE Ok(convert(get_distance_unit(feature.val).val, value.val, unit))

get_time(m, state, name, unit) ==
    LET value   == get_value(m, state, name)
        feature == get_feature(m, name)
    IN  IF ~value.ok THEN value
        ELSE IF ~feature.ok THEN feature
        ELSE IF ~get_time_unit(feature.val).ok THEN get_time_unit(feature.val)
        ELSE Ok(convert(get_time_unit(feature.val).val, value.val, unit))

get_energy(m, state, name, unit) ==
    LET value   == get_value(m, state, name)
        feature == get_feature(m, name)
    IN  IF ~value.ok THEN value
        ELSE IF ~feature.ok THEN feature
        ELSE IF ~get_energy_unit(feature.val).ok THEN get_energy_unit(feature.val)
        ELSE Ok(convert(get_energy_unit(feature.val).val, value.val, unit))

\* ---- typed setters: Ok(the vector written) or the error -------------------
set_distance(m, state, name, distance, from_unit) ==
    LET feature == get_feature(m, name) IN
    IF ~feature.ok THEN feature
    ELSE IF ~get_distance_unit(feature.val).ok THEN get_distance_unit(feature.val)
    ELSE update_state(m, state, name,
                      convert(from_unit, distance, get_distance_unit(feature.val).val), "Replace")

set_time(m, state, name, time, from_unit) ==
    LET feature == get_feature(m, name) IN
    IF ~feature.ok THEN feature
    ELSE IF ~get_time_unit(feature.val).ok THEN get_time_unit(feature.val)
    ELSE update_state(m, state, name,
                      convert(from_unit, time, get_time_unit(feature.val).val), "Replace")

set_energy(m, state, name, energy, from_unit) ==
    LET feature == get_feature(m, name) IN
    IF ~feature.ok THEN feature
    ELSE IF ~get_energy_unit(feature.val).ok THEN get_energy_unit(feature.val)
    ELSE update_state(m, state, name,
                      convert(from_unit, energy, get_energy_unit(feature.val).val), "Replace")

\* ---- add_*: read in from_unit, add, write back ----------------------------
\* a mutant: the value replaces what was stored
add_distance_overwrite(m, state, name, distance, from_unit) ==
    LET prev_distance == get_distance(m, state, name, from_unit) IN
    IF ~prev_distance.ok THEN prev_distance
    ELSE set_distance(m, state, name, distance, from_unit)

add_distance(m, state, name, distance, from_unit) ==
    LET prev_distance == get_distance(m, state, name, from_unit) IN
    IF ~prev_distance.ok THEN prev_distance
    ELSE LET next_distance == binary64_add(prev_distance.val, distance)
         IN  set_distance(m, state, name, next_distance, from_unit)

add_time(m, state, name, time, from_unit) ==
    LET prev_time == get_time(m, state, name, from_unit) IN
    IF ~prev_time.ok THEN prev_time
    ELSE LET next_time == binary64_add(prev_time.val, time)
         IN  set_time(m, state, name, next_time, from_unit)

add_energy(m, state, name, energy, from_unit) ==
    LET prev_energy == get_energy(m, state, name, from_unit) IN
    IF ~prev_energy.ok THEN prev_energy
    ELSE LET next_energy == binary64_add(prev_energy.val, energy)
         IN  set_energy(m, state, name, next_energy, from_unit)

\* ---- the lists StateModel::new and extend are given ---------------------
NumNames   == 5    \* feature names 1..NumNames
MaxList    == 5    \* longest list given to new
MaxEntries == 2    \* longest list given to extend
MaxExtends == 1    \* extend calls in a row

Names == 1..NumNames

FeaturePool ==
    << StateFeature("Distance", "Meters", 0),
       StateFeature("Energy", "GallonsGasoline", 0),
       StateFeature("Time", "Seconds", 0),
       StateFeature("Custom", "floating_point", 0),
       StateFeature("Distance", "Miles", 0),
       StateFeature("Energy", "KilowattHours", 0),
       StateFeature("Time", "Hours", 0),
       StateFeature("Custom", "boolean", 0) >>

\* the k-th declaration of a name: name 1 is a distance in meters, then in
\* miles; name 2 an energy in gallons, then in kilowatt hours; ...
Decl(name, k) == FeaturePool[((name - 1 + 4 * k) % Len(FeaturePool)) + 1]

\* a list of names as a list of entries: the j-th entry with the same name
\* (j = 0, 1, ..) carries the name's declaration number k0 + j
Entries(names, k0) ==
    [ i \in DOMAIN names |->
        <<names[i], Decl(names[i], k0 + Cardinality({ j \in 1..(i - 1) : names[j] = names[i] }))>> ]

NameLists(maxLen) == UNION { [1..n -> Names] : n \in 0..maxLen }

NameSet(entries) == { entries[i][1] : i \in DOMAIN entries }

InitSM ==
    /\ \E names \in NameLists(MaxList) :
         /\ smIn = [op |-> "new", base |-> StateModel_empty, entries |-> Entries(names, 0),
                    depth |-> 0]
         /\ sm = StateModel_new(Entries(names, 0))
    /\ sv = <<>>
    /\ smLast = <<>>
    /\ IdleSearch /\ IdleRF /\ IdleAgg /\ IdleInterp /\ IdleCall

Extend ==
    /\ smIn.depth < MaxExtends
    /\ \E names \in NameLists(MaxEntries) :
         LET r == extend(sm, Entries(names, 1)) IN
         /\ r.ok
         /\ sm' = r.val
         /\ smIn' = [op |-> "extend", base |-> sm, entries |-> Entries(names, 1),
                     depth |-> smIn.depth + 1]
    /\ UNCHANGED <<sv, smLast>>
    /\ UNCHANGED <<searchVars, rfVars, aggVars, interpVars, callVars>>

NextSM == Extend

SpecSM == InitSM /\ [][NextSM]_vars

\* the names of a model's features, with repetitions
KeyList(m) ==
    IF m.variant = "NFeatures" THEN into_iter(m) ELSE [ i \in DOMAIN m.k |-> <<m.k[i]>> ]

NamesDistinct(m) ==
    \A i, j \in DOMAIN KeyList(m) : KeyList(m)[i][1] = KeyList(m)[j][1] => i = j

IndicesExact(m) ==
    /\ \A i \in DOMAIN into_iter(m) : into_iter(m)[i][2].index \in 0..(len(m) - 1)
    /\ \A x \in 0..(len(m) - 1) :
         Cardinality({ i \in DOMAIN into_iter(m) : into_iter(m)[i][2].index = x }) = 1

IterInIndexOrder(m) ==
    /\ Len(iter(m)) = len(m)
    /\ \A i \in DOMAIN iter(m) : get_index(m, iter(m)[i][1]) = Ok(i - 1)
    /\ Len(to_vec(m)) = len(m)
    /\ \A i \in DOMAIN to_vec(m) :
         /\ to_vec(m)[i][2].index = i - 1
         /\ get_index(m, to_vec(m)[i][1]) = Ok(i - 1)
    /\ Len(into_iter(m)) = len(m)
    /\ \A i \in DOMAIN into_iter(m) : into_iter(m)[i][2].index = i - 1

WellFormed(m) == NamesDistinct(m) /\ IndicesExact(m) /\ IterInIndexOrder(m)

\* C5: every StateModel built by new and extend has pairwise distinct feature
\* names, indices that are exactly 0..len()-1, and iter / to_vec / into_iter
\* in ascending index order.
C5_WellFormed == WellFormed(sm)

\* C5 for lists whose names are pairwise distinct (holds)
C5_WellFormedDistinct ==
    (/\ \A i, j \in DOMAIN smIn.entries : smIn.entries[i][1] = smIn.entries[j][1] => i = j
     /\ WellFormed(smIn.base))
        => WellFormed(sm)

\* C7: extend returns a model whose names are the base names and the entry
\* names together, in which a name of the entries has a feature of the
\* entries and every other name keeps its base feature.
C7_ExtendUnion ==
    smIn.op = "extend" =>
        LET base    == smIn.base
            entries == smIn.entries
            has(m, n) == get_feature(m, n).ok
        IN  /\ \A n \in Names : has(sm, n) <=> (has(base, n) \/ n \in NameSet(entries))
            /\ \A n \in NameSet(entries) :
                 \E i \in DOMAIN entries : entries[i][1] = n /\ get_feature(sm, n) = Ok(entries[i][2])
            /\ \A n \in Names \ NameSet(entries) : get_feature(sm, n) = get_feature(base, n)

\* C7 for a base model that is well formed (holds)
C7_ExtendUnionWellFormedBase ==
    (smIn.op = "extend" /\ WellFormed(smIn.base)) => C7_ExtendUnion

\* ---- the typed accessors, by the dimension of the unit ---------------------
DistanceUnits == {"Meters", "Miles"}
TimeUnits     == {"Seconds", "Hours"}
EnergyUnits   == {"GallonsGasoline", "KilowattHours"}
AllUnits      == DistanceUnits \cup TimeUnits \cup EnergyUnits

TypeOfUnit(unit) ==
    IF unit \in DistanceUnits THEN "Distance"
    ELSE IF unit \in TimeUnits THEN "Time" ELSE "Energy"

typed_get(m, state, name, unit) ==
    IF unit \in DistanceUnits THEN get_distance(m, state, name, unit)
    ELSE IF unit \in TimeUnits THEN get_time(m, state, name, unit)
    ELSE get_energy(m, state, name, unit)

typed_set(m, state, name, x, unit) ==
    IF unit \in DistanceUnits THEN set_distance(m, state, name, x, unit)
    ELSE IF unit \in TimeUnits THEN set_time(m, state, name, x, unit)
    ELSE set_energy(m, state, name, x, unit)

typed_add(m, state, name, x, unit) ==
    IF unit \in DistanceUnits THEN add_distance(m, state, name, x, unit)
    ELSE IF unit \in TimeUnits THEN add_time(m, state, name, x, unit)
    ELSE add_energy(m, state, name, x, unit)

\* the values written, as thousandths of the unit: 1609.344 m, 2.5 m, 1 mile,
\* 1.5 miles, 1 hour in seconds, 5.4 s, ...
Amounts(unit) ==
    CASE unit = "Meters"          -> {1609344, 2500}
      [] unit = "Miles"           -> {1000, 1500}
      [] unit = "Seconds"         -> {3600000, 5400}
      [] unit = "Hours"           -> {1000, 1500}
      [] unit = "GallonsGasoline" -> {1000, 1500}
      [] unit = "KilowattHours"   -> {33410, 1000}

\* state vectors of length n: all zero, and slot i holding i.002 units
TestVectors(n) == { [ i \in 1..n |-> Zero64 ], [ i \in 1..n |-> quantity(1000 * i + 2) ] }

\* what a caller can observe of a model
Observations(m, n) ==
    [ len           |-> len(m),
      contains_key  |-> [ name \in Names |-> contains_key(m, name) ],
      get_index     |-> [ name \in Names |-> get_index(m, name) ],
      get_feature   |-> [ name \in Names |-> get_feature(m, name) ],
      iter          |-> iter(m),
      to_vec        |-> to_vec(m),
      into_iter     |-> into_iter(m),
      initial_state |-> initial_state(m),
      typed         |-> [ state \in TestVectors(n) |-> [ name \in Names |-> [ unit \in AllUnits |->
                           << typed_get(m, state, name, unit),
                              [ x \in Amounts(unit) |-> << typed_set(m, state, name, quantity(x), unit),
                                                           typed_add(m, state, name, quantity(x), unit) >> ] >> ] ] ] ]

\* C6: for a list of 1 to 4 entries the fixed-arity model that new builds and
\* the NFeatures model built from the same sorted list give the same len,
\* contains_key, index and feature of every name, iteration order,
\* initial_state, and typed getter and setter results on every state vector.
C6_FixedArityEquivalent ==
    (smIn.op = "new" /\ Len(smIn.entries) \in 1..4)
        => Observations(sm, len(sm)) = Observations(n_features(sorted_by_key(smIn.entries)), len(sm))

\* C6 for lists whose names are pairwise distinct (holds)
C6_FixedArityEquivalentDistinct ==
    (\A i, j \in DOMAIN smIn.entries : smIn.entries[i][1] = smIn.entries[j][1] => i = j)
        => C6_FixedArityEquivalent

(***************************************************************************)
(* Typed reads and writes of a state vector.  sm is the model, sv the      *)
(* vector, smLast the last accessor call: its arguments (a quantity x as   *)
(* its thousandths), its result and the vector before it.                  *)
(***************************************************************************)
MaxWrites == 1    \* set_* / add_* calls on one vector

SVEntryLists ==
    { Entries(<<1>>, 0),
      Entries(<<3, 1, 2>>, 0),
      Entries(<<1, 2, 3, 4, 5>>, 0),
      Entries(<<1, 1, 2, 3, 5>>, 0),
      << <<1, FeaturePool[1]>>, <<1, FeaturePool[3]>> >> }

\* the vectors a search starts from: the model's initial state where it has
\* the model's length, and the vectors of TestVectors
StartVectors(m) ==
    TestVectors(len(m)) \cup
    { s \in { IF initial_state(m).ok THEN initial_state(m).val ELSE <<>> } : Len(s) = len(m) }

NoCall(state) ==
    [op |-> "none", name |-> 0, x |-> 0, unit |-> "", res |-> Ok(0), before |-> state, writes |-> 0]

InitSV ==
    /\ \E entries \in SVEntryLists :
         /\ smIn = [op |-> "new", base |-> StateModel_empty, entries |-> entries, depth |-> 0]
         /\ sm = StateModel_new(entries)
    /\ sv \in StartVectors(sm)
    /\ smLast = NoCall(sv)
    /\ IdleSearch /\ IdleRF /\ IdleAgg /\ IdleInterp /\ IdleCall

\* the query overrides one feature of the model before the search starts
ExtendSV ==
    /\ smIn.depth < MaxExtends
    /\ smLast.op = "none"
    /\ \E names \in [1..1 -> 1..2] :
         LET r == extend(sm, Entries(names, 1)) IN
         /\ r.ok
         /\ sm' = r.val
         /\ smIn' = [op |-> "extend", base |-> sm, entries |-> Entries(names, 1),
                     depth |-> smIn.depth + 1]
         /\ sv' \in StartVectors(r.val)
         /\ smLast' = NoCall(sv')
    /\ UNCHANGED <<searchVars, rfVars, aggVars, interpVars, callVars>>

\* a call that writes the vector: on Ok the vector is the one written, on
\* Err it is left as it was
Write(op, name, x, unit, r) ==
    /\ smLast.writes < MaxWrites
    /\ sv' = IF r.ok THEN r.val ELSE sv
    /\ smLast' = [op |-> op, name |-> name, x |-> x, unit |-> unit, res |-> r,
                  before |-> sv, writes |-> smLast.writes + 1]
    /\ UNCHANGED <<sm, smIn>>
    /\ UNCHANGED <<searchVars, rfVars, aggVars, interpVars, callVars>>

ReadOps ==
    {"get_distance", "get_time", "get_energy", "get_custom_f64", "get_custom_i64",
     "get_custom_u64", "get_custom_bool", "get_delta"}

\* a call that reads the vector; a read that follows a read reaches the
\* states the second read reaches alone, so reads follow a start or a write
Read(op, name, unit, r) ==
    /\ smLast.op \notin ReadOps
    /\ smLast' = [op |-> op, name |-> name, x |-> 0, unit |-> unit, res |-> r,
                  before |-> sv, writes |-> smLast.writes]
    /\ UNCHANGED <<sm, smIn, sv>>
    /\ UNCHANGED <<searchVars, rfVars, aggVars, interpVars, callVars>>

SetDistance ==
    \E name \in Names, unit \in DistanceUnits : \E x \in Amounts(unit) :
        Write("set_distance", name, x, unit, set_distance(sm, sv, name, quantity(x), unit))
SetTime ==
    \E name \in Names, unit \in TimeUnits : \E x \in Amounts(unit) :
        Write("set_time", name, x, unit, set_time(sm, sv, name, quantity(x), unit))
SetEnergy ==
    \E name \in Names, unit \in EnergyUnits : \E x \in Amounts(unit) :
        Write("set_energy", name, x, unit, set_energy(sm, sv, name, quantity(x), unit))
AddDistance ==
    \E name \in Names, unit \in DistanceUnits : \E x \in Amounts(unit) :
        Write("add_distance", name, x, unit, add_distance(sm, sv, name, quantity(x), unit))
AddTime ==
    \E name \in Names, unit \in TimeUnits : \E x \in Amounts(unit) :
        Write("add_time", name, x, unit, add_time(sm, sv, name, quantity(x), unit))
AddEnergy ==
    \E name \in Names, unit \in EnergyUnits : \E x \in Amounts(unit) :
        Write("add_energy", name, x, unit, add_energy(sm, sv, name, quantity(x), unit))
GetDistance ==
    \E name \in Names, unit \in DistanceUnits :
        Read("get_distance", name, unit, get_distance(sm, sv, name, unit))
GetTime ==
    \E name \in Names, unit \in TimeUnits :
        Read("get_time", name, unit, get_time(sm, sv, name, unit))
GetEnergy ==
    \E name \in Names, unit \in EnergyUnits :
        Read("get_energy", name, unit, get_energy(sm, sv, name, unit))

NextSV ==
    \/ ExtendSV
    \/ SetDistance \/ SetTime \/ SetEnergy
    \/ AddDistance \/ AddTime \/ AddEnergy
    \/ GetDistance \/ GetTime \/ GetEnergy

SpecSV == InitSV /\ [][NextSV]_vars

Abs(a) == IF a < 0 THEN 0 - a ELSE a

\* the features a model declares, shadowed ones included
Declared(m) ==
    IF m.variant = "NFeatures"
    THEN { <<name, m.f[name].feature>> : name \in DOMAIN m.f }
    ELSE { <<m.k[i], m.v[i]>> : i \in DOMAIN m.k }

\* C8: for every Distance / Time / Energy feature of the model, every unit of
\* its dimension and every value x, the typed getter in that unit right after
\* the typed setter wrote x in that unit returns x: exactly when the unit is
\* the storage unit, within the precision of the two f64 conversions (a
\* relative error of 2^-50) otherwise.
C8_RoundTrip ==
    \A d \in Declared(sm) : \A unit \in AllUnits : \A x \in Amounts(unit) :
        TypeOfUnit(unit) = d[2].type =>
            LET w == typed_set(sm, sv, d[1], quantity(x), unit) IN
            /\ w.ok
            /\ LET r == typed_get(sm, w.val, d[1], unit) IN
               /\ r.ok
               /\ unit = d[2].unit => r.val = quantity(x)
               /\ binary64_within(r.val, quantity(x), 50)

\* C8 for a well-formed model (holds)
C8_RoundTripWellFormed == WellFormed(sm) => C8_RoundTrip

\* a value written in another unit than the storage unit has been read back
\* in the unit it was written in: one unit in the last place off what was
\* written (1 kWh on a feature kept in gallons reads 0.9999999999999999)
C8_WitnessReadBack ==
    /\ WellFormed(sm)
    /\ smLast.op = "get_energy" /\ smLast.res.ok /\ smLast.unit = "KilowattHours"
    /\ get_feature(sm, smLast.name).val.unit = "GallonsGasoline"
    /\ \E state \in StartVectors(sm) :
          set_energy(sm, state, smLast.name, quantity(1000), "KilowattHours") = Ok(sv)
    /\ smLast.res.val # quantity(1000)
    /\ binary64_within(smLast.res.val, quantity(1000), 52)

\* 2.5 m written to a feature kept in miles reads back as 2.5 m
C8_WitnessReadBackExact ==
    /\ WellFormed(sm)
    /\ smLast.op = "get_distance" /\ smLast.res.ok /\ smLast.unit = "Meters"
    /\ get_feature(sm, smLast.name).val.unit = "Miles"
    /\ \E state \in StartVectors(sm) :
          set_distance(sm, state, smLast.name, quantity(2500), "Meters") = Ok(sv)
    /\ sv[get_index(sm, smLast.name).val + 1] # Zero64
    /\ smLast.res.val = quantity(2500)

AddCalls == {"add_distance", "add_time", "add_energy"}

\* of the last add_* call: the slot, the storage unit, and the f64 sum of the
\* old value and v converted to the storage unit
AddSlot     == get_index(sm, smLast.name).val + 1
AddStorage  == get_feature(sm, smLast.name).val.unit
AddExpected == binary64_add(smLast.before[AddSlot],
                            convert(smLast.unit, quantity(smLast.x), AddStorage))

\* only the slot of the named feature changes
AddFrame ==
    /\ Len(sv) = Len(smLast.before)
    /\ \A j \in DOMAIN sv : j # AddSlot => sv[j] = smLast.before[j]

\* extend has replaced the distance in meters by one in miles, and 1609.344
\* meters are added to the initial state
OverrideScenario ==
    /\ smIn.op = "extend"
    /\ get_feature(smIn.base, smLast.name) = Ok(StateFeature("Distance", "Meters", 0))
    /\ get_feature(sm, smLast.name) = Ok(StateFeature("Distance", "Miles", 0))
    /\ smLast.op = "add_distance" /\ smLast.x = 1609344 /\ smLast.unit = "Meters"
    /\ initial_state(sm) = Ok(smLast.before)

\* in the override scenario the initial state holds 0 and the add stores
\* the f64 1.0
OverrideStoresOneMile ==
    OverrideScenario =>
        /\ smLast.before[AddSlot] = Zero64
        /\ sv[AddSlot] = quantity(1000)

C9_Witness ==
    /\ smLast.op \in AddCalls /\ smLast.res.ok
    /\ OverrideScenario
    /\ sv[AddSlot] = quantity(1000)

C9_WitnessSameUnit ==
    /\ smLast.op \in AddCalls /\ smLast.res.ok
    /\ smLast.unit = AddStorage
    /\ smLast.before[AddSlot].s = 1
    /\ sv[AddSlot] = binary64_add(smLast.before[AddSlot], quantity(smLast.x))

(***************************************************************************)
(* CostAggregation.  A Cost wraps an f64, and every + and * of the code    *)
(* rounds its exact result to the nearest f64 (53 significant bits, ties   *)
(* to the even significand).  The model holds the f64 values of the form   *)
(*   c[1] + c[2] * 2^53 + c[3] * 2^106 + ...                               *)
(* with small integer coefficients, as the sequence c without high zeros:  *)
(* <<9>> is 9.0, <<0, 1>> is 2^53, <<2, 1>> is 2^53 + 2 and <<-1, 1>> is   *)
(* 2^53 - 1.  A sequence of length 1 is an integer below 2^31, which f64   *)
(* holds exactly.  aggIn is the aggregation mode and the list of           *)
(* (name, cost) pairs collected so far, aggOut the last result of agg.     *)
(***************************************************************************)
MaxCostValue == 3     \* largest cost below 2^53 of a feature
MaxCosts     == 3     \* longest list given to agg

Negated(p) == [ i \in DOMAIN p |-> 0 - p[i] ]

\* the sign of the value: of its highest coefficient
SignOf(p) ==
    LET t == Trim(p) IN
    IF t[Len(t)] > 0 THEN 1 ELSE IF t[Len(t)] < 0 THEN -1 ELSE 0

\* the exact sum and product, before the rounding
ExactAdd(a, b) ==
    Trim([ i \in 1..Max2(Len(a), Len(b)) |-> Coef(a, i) + Coef(b, i) ])

RECURSIVE ConvolutionAt(_, _, _, _)
ConvolutionAt(a, b, i, j) ==
    IF j > Len(a) THEN 0
    ELSE a[j] * Coef(b, i + 1 - j) + ConvolutionAt(a, b, i, j + 1)

ExactMul(a, b) ==
    Trim([ i \in 1..(Len(a) + Len(b) - 1) |-> ConvolutionAt(a, b, i, 1) ])

\* floor(log2(n)) for n >= 1
FloorLog2(n) == CHOOSE e \in 0..30 : 2^e <= n /\ (e < 30 => n < 2^(e + 1))

\* the nearest f64 to the exact value p > 0 of two or more coefficients.  The
\* value lies in the binade of its highest coefficient top (one binade lower
\* when top is a power of two and the rest is negative), so one unit in the
\* last place is u * 2^(53 * (k - 2)): the coefficient below top is rounded
\* to a multiple of u, the coefficients under it decide a tie, and a tie
\* they leave open goes to the even significand.
RoundPositive(p) ==
    LET k    == Len(p)
        top  == p[k]
        c    == p[k - 1]
        low  == SignOf(SubSeq(p, 1, k - 2))
        fl   == FloorLog2(top)
        neg  == c < 0 \/ (c = 0 /\ low < 0)
        u    == IF neg /\ top = 2^fl THEN 2^fl ELSE 2^(fl + 1)
        q    == c \div u
        r    == c % u
        up   == 2 * r > u \/ (2 * r = u /\ (low > 0 \/ (low = 0 /\ q % 2 = 1)))
    IN  Trim([ i \in 1..k |-> IF i = k THEN top
                              ELSE IF i = k - 1 THEN (IF up THEN q + 1 ELSE q) * u
                              ELSE 0 ])

\* the nearest f64 to an exact value
RoundF64(p) ==
    LET t == Trim(p) IN
    IF Len(t) = 1 THEN t
    ELSE IF SignOf(t) < 0 THEN Trim(Negated(RoundPositive(Negated(t))))
    ELSE RoundPositive(t)

Cost_ZERO == <<0>>
Cost_ONE  == <<1>>

\* impl Add for Cost, and Cost::new(a.as_f64() * b.as_f64())
cost_add(a, b) == RoundF64(ExactAdd(a, b))
cost_mul(a, b) == RoundF64(ExactMul(a, b))

\* a mutant: the product is folded from ZERO
agg_mul_from_zero(mode, costs) ==
    LET sum[i \in 0..Len(costs)] ==
          IF i = 0 THEN Cost_ZERO ELSE cost_add(sum[i - 1], costs[i][2])
        product[i \in 0..Len(costs)] ==
          IF i = 0 THEN Cost_ZERO ELSE cost_mul(product[i - 1], costs[i][2])
    IN  IF mode = "Sum" THEN sum[Len(costs)]
        ELSE IF costs = <<>> THEN Cost_ZERO ELSE product[Len(costs)]

agg(mode, costs) ==
    LET sum[i \in 0..Len(costs)] ==
          IF i = 0 THEN Cost_ZERO ELSE cost_add(sum[i - 1], costs[i][2])
        product[i \in 0..Len(costs)] ==
          IF i = 0 THEN Cost_ONE ELSE cost_mul(product[i - 1], costs[i][2])
    IN  IF mode = "Sum" THEN sum[Len(costs)]
        ELSE IF costs = <<>> THEN Cost_ZERO ELSE product[Len(costs)]

Modes      == {"Sum", "Mul"}
\* the costs of a feature: 0.0 .. MaxCostValue, and 2^53 - 1, 2^53, 2^53 + 2
\* and 3 * 2^53, where one unit in the last place of an f64 reaches 1 and more
CostValues ==
    { <<n>> : n \in 0..MaxCostValue } \cup { <<-1, 1>>, <<0, 1>>, <<2, 1>>, <<0, 3>> }

InitAgg ==
    /\ aggIn \in [mode : Modes, costs : {<<>>}, done : {FALSE}]
    /\ aggOut = Cost_ZERO
    /\ IdleSearch /\ IdleRF /\ IdleSM /\ IdleInterp /\ IdleCall

\* the cost model has computed the cost of one more feature
PushCost ==
    /\ Len(aggIn.costs) < MaxCosts
    /\ \E c \in CostValues :
         aggIn' = [aggIn EXCEPT !.costs = Append(@, <<Len(@) + 1, c>>), !.done = FALSE]
    /\ aggOut' = Cost_ZERO
    /\ UNCHANGED <<searchVars, rfVars, smVars, interpVars, callVars>>

Agg ==
    /\ ~aggIn.done
    /\ aggOut' = agg(aggIn.mode, aggIn.costs)
    /\ aggIn' = [aggIn EXCEPT !.done = TRUE]
    /\ UNCHANGED <<searchVars, rfVars, smVars, interpVars, callVars>>

NextAgg == PushCost \/ Agg

SpecAgg == InitAgg /\ [][NextAgg]_vars

\* the exact sum and product of the costs
ExactAgg(mode, costs) ==
    LET sum[i \in 0..Len(costs)] ==
          IF i = 0 THEN <<0>> ELSE ExactAdd(sum[i - 1], costs[i][2])
        product[i \in 0..Len(costs)] ==
          IF i = 0 THEN <<1>> ELSE ExactMul(product[i - 1], costs[i][2])
    IN  IF mode = "Sum" THEN sum[Len(costs)]
        ELSE IF costs = <<>> THEN <<0>> ELSE product[Len(costs)]

\* the list in another order
Permuted(costs, p) == [ i \in DOMAIN costs |-> costs[p[i]] ]
Orders(costs)      == { Permuted(costs, p) : p \in KeyOrders(DOMAIN costs) }

\* every way to aggregate three costs in two calls, and in one call in any
\* order
Groupings(mode, costs) ==
    { agg(mode, << <<1, agg(mode, SubSeq(c, 1, 2))>>, c[3] >>) : c \in Orders(costs) } \cup
    { agg(mode, << c[1], <<2, agg(mode, SubSeq(c, 2, 3))>> >>) : c \in Orders(costs) } \cup
    { agg(mode, c) : c \in Orders(costs) }

\* r is the exact value x >= 0 up to the rounding of k operations: equal
\* when x is below 2^53, and otherwise off by at most k units in the last
\* place of the binade above x's (a relative error of k * 2^-52)
WithinRounding(r, x, k) ==
    IF Len(x) = 1 THEN r = x
    ELSE LET d == ExactAdd(r, Negated(x)) IN
         /\ Len(d) < Len(x)
         /\ Abs(Coef(d, Len(x) - 1)) <= 2 * k * (x[Len(x)] + 1)

AggBasics ==
    /\ aggIn.costs = <<>> => aggOut = Cost_ZERO
    /\ Len(aggIn.costs) = 1 => aggOut = aggIn.costs[1][2]
    /\ (aggIn.mode = "Sum" /\ Len(aggIn.costs) = 2)
          => aggOut = cost_add(aggIn.costs[1][2], aggIn.costs[2][2])
    /\ (aggIn.mode = "Mul" /\ Len(aggIn.costs) = 2)
          => aggOut = cost_mul(aggIn.costs[1][2], aggIn.costs[2][2])
    /\ Len(aggIn.costs) = 2 => \A c \in Orders(aggIn.costs) : agg(aggIn.mode, c) = aggOut
    /\ Len(aggIn.costs) = 3
          => aggOut = agg(aggIn.mode, << <<1, agg(aggIn.mode, SubSeq(aggIn.costs, 1, 2))>>,
                                         aggIn.costs[3] >>)

\* C10 as stated: Sum and Mul of no costs are 0, Sum(a, b) = a + b,
\* Mul(a, b) = a * b, every order of the same costs gives the same result,
\* and agg(a, b, c) = agg(agg(a, b), c) = agg(a, agg(b, c)).
C10_AggIdentities ==
    aggIn.done =>
        /\ AggBasics
        /\ \A c \in Orders(aggIn.costs) : agg(aggIn.mode, c) = aggOut
        /\ Len(aggIn.costs) = 3 => \A r \in Groupings(aggIn.mode, aggIn.costs) : r = aggOut

\* C10, amended: the identities on up to two costs and agg(a, b, c) =
\* agg(agg(a, b), c) hold exactly; another order or grouping of three or more
\* costs gives the exact sum or product up to the rounding of the additions
\* or multiplications made.
C10_AggIdentitiesRounded ==
    aggIn.done =>
        /\ AggBasics
        /\ \A c \in Orders(aggIn.costs) :
             WithinRounding(agg(aggIn.mode, c), ExactAgg(aggIn.mode, aggIn.costs),
                            Max2(Len(c), 1) - 1)
        /\ Len(aggIn.costs) = 3 =>
             \A r \in Groupings(aggIn.mode, aggIn.costs) :
                 WithinRounding(r, ExactAgg(aggIn.mode, aggIn.costs), 2)

\* three costs whose product is not 0 and whose sum depends on their order
C10_Witness ==
    /\ aggIn.done /\ Len(aggIn.costs) = 3
    /\ SignOf(ExactAgg("Mul", aggIn.costs)) > 0
    /\ SignOf(aggOut) > 0
    /\ \E c \in Orders(aggIn.costs) : agg("Sum", c) # agg("Sum", aggIn.costs)

(***************************************************************************)
(* Queries on road networks with parallel edges, dead ends and             *)
(* unreachable vertices, in both directions and to every destination       *)
(* (the origin included).  The frontier loop is the one of Spec; it is     *)
(* scheduled until it returns.                                             *)
(***************************************************************************)
\* the endpoints an edge list of a query graph may connect: two parallel
\* edges 0 -> 1 and 1 -> 3, a dead end 2 and a way back 3 -> 0
QueryPairs == << <<0, 1>>, <<0, 1>>, <<1, 3>>, <<1, 3>>, <<0, 2>>, <<3, 0>> >>

RECURSIVE EdgeListOf(_, _, _, _)
EdgeListOf(pairs, choice, i, acc) ==
    IF i > Len(pairs) THEN acc
    ELSE IF choice[i] = Absent THEN EdgeListOf(pairs, choice, i + 1, acc)
    ELSE EdgeListOf(pairs, choice, i + 1,
                    Append(acc, [edge_id       |-> Len(acc),
                                 src_vertex_id |-> pairs[i][1],
                                 dst_vertex_id |-> pairs[i][2],
                                 distance      |-> choice[i]]))

\* each pair is present with distance 0 or 1, or absent
QueryGraphs ==
    { BuildGraph(EdgeListOf(QueryPairs, c, 1, <<>>)) :
        c \in [1..Len(QueryPairs) -> {0, 1, Absent}] }

\* h = 0 (Dijkstra), and the least cost to the destination capped at MaxH
QueryTables(toDest) ==
    { [ v \in VertexIds |-> 0 ], [ v \in VertexIds |-> Min2(toDest[v], MaxH) ] }

InitQuery ==
    /\ graph \in QueryGraphs
    /\ origin = 0
    /\ destination \in VertexIds
    /\ direction \in {"Forward", "Reverse"}
    /\ \E toDest \in { LeastTo(graph, direction, destination) } : h \in QueryTables(toDest)
    /\ frontier = { [f |-> h[origin], g |-> 0, v |-> origin] }
    /\ tree = <<>>
    /\ settled = {}
    /\ pc = "searching"
    /\ result = <<>>
    /\ IdleRF /\ IdleSM /\ IdleAgg /\ IdleInterp /\ IdleCall

SpecQuery == InitQuery /\ [][Next]_vars /\ WF_vars(Next)

Reachable(g, dir, s, t) == Least(g, dir, s, t) < Infinity

\* C11: the search terminates; it ends with NoPathExists, an empty frontier
\* and no route exactly when the destination cannot be reached from the
\* origin in the search direction; a vertex without incident edges raises no
\* error; a destination equal to the origin is reached with the empty route.
C11_TerminatesNoPathIffUnreachable ==
    /\ <>(pc \in {"done", "nopath"})
    /\ [](pc = "nopath" => (/\ ~Reachable(graph, direction, origin, destination)
                            /\ frontier = {} /\ result = <<>>))
    /\ [](pc = "done" => (/\ Reachable(graph, direction, origin, destination)
                          /\ origin = destination => result = <<>>
                          /\ origin # destination => result # <<>>))
    /\ [](pc # "error")

\* a search that settled a vertex without incident edges and ended with
\* NoPathExists
C11_Witness ==
    /\ pc = "nopath"
    /\ ~Reachable(graph, direction, origin, destination)
    /\ \E v \in settled : incident_edges(graph, v, direction) = Ok({})
    /\ Cardinality(settled) >= 2

\* a search whose destination is its origin
C11_WitnessOrigin == pc = "done" /\ origin = destination /\ result = <<>>

\* ---- a second run of the same query -----------------------------------
\* the keys in ascending order: one of the orders HashMap::keys may give
SortedKeys(S) == CHOOSE q \in KeyOrders(S) : \A i, j \in DOMAIN q : i < j => q[i] < q[j]

\* the frontier loop run to its end from tree tr, frontier fr and settled
\* set done, every incident_edges listing its keys in ascending order; seen
\* is the list of the vertices popped
RECURSIVE SortedRun(_, _, _, _)
SortedRun(tr, fr, done, seen) ==
    IF fr = {} THEN [pc |-> "nopath", tree |-> tr, result |-> <<>>, seen |-> seen]
    ELSE
      LET ent == CHOOSE e \in fr : IsFirst(e, fr) IN
      IF ent.v = destination
      THEN [pc |-> "done", tree |-> tr, seen |-> Append(seen, ent.v),
            result |-> Route(tr, origin, destination, NumVertices)]
      ELSE
        LET inc == incident_edges(graph, ent.v, direction) IN
        IF ~inc.ok THEN [pc |-> "error", tree |-> tr, result |-> <<>>, seen |-> seen]
        ELSE
          LET trips == incident_triplets(graph, ent.v, direction, SortedKeys(inc.val)) IN
          IF ~trips.ok THEN [pc |-> "error", tree |-> tr, result |-> <<>>, seen |-> seen]
          ELSE CHOOSE out \in
                 { SortedRun(r.tree, r.frontier, done \cup {ent.v}, Append(seen, ent.v)) :
                     r \in { Relax(graph, trips.val, 1, ent.g, done, tr, fr \ {ent}) } } : TRUE

SecondRun == SortedRun(<<>>, { [f |-> h[origin], g |-> 0, v |-> origin] }, {}, <<>>)

\* two edges of the graph join the same two vertices in the same direction
HasParallelEdges(g) ==
    \E i, j \in DOMAIN g.edges :
        /\ i # j
        /\ g.edges[i].src_vertex_id = g.edges[j].src_vertex_id
        /\ g.edges[i].dst_vertex_id = g.edges[j].dst_vertex_id

\* C12: a run of the search ends as every other run of the same query does,
\* with the same tree, route and costs, in whatever order out_edges /
\* in_edges list the incident edges.
C12_Deterministic ==
    pc \in {"done", "nopath"} =>
        \E second \in { SecondRun } :
            /\ pc = second.pc
            /\ tree = second.tree
            /\ result = second.result
            /\ settled \subseteq { second.seen[i] : i \in DOMAIN second.seen }

\* C12 on graphs without parallel edges (holds)
C12_DeterministicSimpleGraph == ~HasParallelEdges(graph) => C12_Deterministic

(***************************************************************************)
(* Custom features.  The format of a Custom feature is its codec:          *)
(* floating_point, signed_integer, unsigned_integer or boolean.  A codec   *)
(* encodes and decodes the values of its own type only; an integer is      *)
(* stored as the f64 of its value, a boolean as 1.0 or 0.0.                *)
(***************************************************************************)
get_custom_feature_format(feature) ==
    IF feature.type = "Custom" THEN Ok(feature.unit) ELSE Err("IncompatibleFeatureType")

encode_f64(format, value) ==
    IF format = "floating_point" THEN Ok(value) ELSE Err("CodecError")
encode_i64(format, value) ==
    IF format = "signed_integer" THEN Ok(quantity(1000 * value)) ELSE Err("CodecError")
encode_u64(format, value) ==
    IF format = "unsigned_integer" THEN Ok(quantity(1000 * value)) ELSE Err("CodecError")
encode_bool(format, value) ==
    IF format = "boolean" THEN Ok(IF value THEN quantity(1000) ELSE Zero64) ELSE Err("CodecError")

decode_f64(format, value) ==
    IF format = "floating_point" THEN Ok(value) ELSE Err("CodecError")
decode_i64(format, value) ==
    IF format = "signed_integer" THEN Ok(binary64_trunc(value)) ELSE Err("CodecError")
decode_u64(format, value) ==
    IF format = "unsigned_integer" THEN Ok(Max2(binary64_trunc(value), 0)) ELSE Err("CodecError")
decode_bool(format, value) ==
    IF format = "boolean" THEN Ok(value # Zero64) ELSE Err("CodecError")

\* Ok(<<value, format>>) or the first error
get_custom_state_variable(m, state, name) ==
    LET value   == get_value(m, state, name)
        feature == get_feature(m, name)
    IN  IF ~value.ok THEN value
        ELSE IF ~feature.ok THEN feature
        ELSE IF ~get_custom_feature_format(feature.val).ok
             THEN get_custom_feature_format(feature.val)
        ELSE Ok(<<value.val, get_custom_feature_format(feature.val).val>>)

get_custom_f64(m, state, name) ==
    LET v == get_custom_state_variable(m, state, name) IN
    IF ~v.ok THEN v ELSE decode_f64(v.val[2], v.val[1])
get_custom_i64(m, state, name) ==
    LET v == get_custom_state_variable(m, state, name) IN
    IF ~v.ok THEN v ELSE decode_i64(v.val[2], v.val[1])
get_custom_u64(m, state, name) ==
    LET v == get_custom_state_variable(m, state, name) IN
    IF ~v.ok THEN v ELSE decode_u64(v.val[2], v.val[1])
get_custom_bool(m, state, name) ==
    LET v == get_custom_state_variable(m, state, name) IN
    IF ~v.ok THEN v ELSE decode_bool(v.val[2], v.val[1])

\* a mutant: the feature's type is not looked at
set_custom_f64_any_type(m, state, name, value) ==
    LET feature == get_feature(m, name) IN
    IF ~feature.ok THEN feature
    ELSE update_state(m, state, name, value, "Replace")

set_custom_f64(m, state, name, value) ==
    LET feature == get_feature(m, name) IN
    IF ~feature.ok THEN feature
    ELSE LET format == get_custom_feature_format(feature.val) IN
         IF ~format.ok THEN format
         ELSE LET encoded_value == encode_f64(format.val, value) IN
              IF ~encoded_value.ok THEN encoded_value
              ELSE update_state(m, state, name, encoded_value.val, "Replace")

set_custom_i64(m, state, name, value) ==
    LET feature == get_feature(m, name) IN
    IF ~feature.ok THEN feature
    ELSE LET format == get_custom_feature_format(feature.val) IN
         IF ~format.ok THEN format
         ELSE LET encoded_value == encode_i64(format.val, value) IN
              IF ~encoded_value.ok THEN encoded_value
              ELSE update_state(m, state, name, encoded_value.val, "Replace")

set_custom_u64(m, state, name, value) ==
    LET feature == get_feature(m, name) IN
    IF ~feature.ok THEN feature
    ELSE LET format == get_custom_feature_format(feature.val) IN
         IF ~format.ok THEN format
         ELSE LET encoded_value == encode_u64(format.val, value) IN
              IF ~encoded_value.ok THEN encoded_value
              ELSE update_state(m, state, name, encoded_value.val, "Replace")

set_custom_bool(m, state, name, value) ==
    LET feature == get_feature(m, name) IN
    IF ~feature.ok THEN feature
    ELSE LET format == get_custom_feature_format(feature.val) IN
         IF ~format.ok THEN format
         ELSE LET encoded_value == encode_bool(format.val, value) IN
              IF ~encoded_value.ok THEN encoded_value
              ELSE update_state(m, state, name, encoded_value.val, "Replace")

\* a mutant: the slots are read wherever the vectors hold the index
get_delta_by_index(m, prev, next, name) ==
    LET idx == get_index(m, name) IN
    IF ~idx.ok THEN idx
    ELSE IF idx.val >= Len(prev) \/ idx.val >= Len(next) THEN Err("StateVectorSizeMismatch")
    ELSE Ok(binary64_add(next[idx.val + 1], binary64_neg(prev[idx.val + 1])))

\* next - prev of the named feature
get_delta(m, prev, next, name) ==
    LET prev_val == get_value(m, prev, name)
        next_val == get_value(m, next, name)
    IN  IF ~prev_val.ok THEN prev_val
        ELSE IF ~next_val.ok THEN next_val
        ELSE Ok(binary64_add(next_val.val, binary64_neg(prev_val.val)))

(***************************************************************************)
(* SpecAccess: the accessors of a StateModel on state vectors of the       *)
(* model's length and on vectors one slot shorter or longer, with names    *)
(* of every type, declared or not.                                         *)
(***************************************************************************)
AccessEntryLists ==
    { Entries(<<3, 1, 4>>, 0),
      Entries(<<4, 2>>, 1),
      Entries(<<1, 1, 2, 3, 5>>, 0) }

\* vectors one slot shorter and one slot longer than the model
WrongVectors(m) ==
    { [ i \in 1..n |-> quantity(1000 * i + 2) ] : n \in {len(m) - 1, len(m) + 1} }

InitAccess ==
    /\ \E entries \in AccessEntryLists :
         /\ smIn = [op |-> "new", base |-> StateModel_empty, entries |-> entries, depth |-> 0]
         /\ sm = StateModel_new(entries)
    /\ sv \in StartVectors(sm) \cup WrongVectors(sm)
    /\ smLast = NoCall(sv)
    /\ IdleSearch /\ IdleRF /\ IdleAgg /\ IdleInterp /\ IdleCall

SetCustomF64 ==
    \E name \in Names : \E x \in {2500} :
        Write("set_custom_f64", name, x, "", set_custom_f64(sm, sv, name, quantity(x)))
SetCustomI64 ==
    \E name \in Names : \E x \in {-3} :
        Write("set_custom_i64", name, x, "", set_custom_i64(sm, sv, name, x))
SetCustomU64 ==
    \E name \in Names : \E x \in {3} :
        Write("set_custom_u64", name, x, "", set_custom_u64(sm, sv, name, x))
SetCustomBool ==
    \E name \in Names : \E x \in {TRUE} :
        Write("set_custom_bool", name, x, "", set_custom_bool(sm, sv, name, x))
GetCustomF64 ==
    \E name \in Names : Read("get_custom_f64", name, "", get_custom_f64(sm, sv, name))
GetCustomI64 ==
    \E name \in Names : Read("get_custom_i64", name, "", get_custom_i64(sm, sv, name))
GetCustomU64 ==
    \E name \in Names : Read("get_custom_u64", name, "", get_custom_u64(sm, sv, name))
GetCustomBool ==
    \E name \in Names : Read("get_custom_bool", name, "", get_custom_bool(sm, sv, name))
\* the delta of a feature between the vector before the last call and now
GetDelta ==
    \E name \in Names : Read("get_delta", name, "", get_delta(sm, smLast.before, sv, name))

NextAccess ==
    \/ SetDistance \/ SetTime \/ SetEnergy
    \/ AddDistance \/ AddTime \/ AddEnergy
    \/ GetDistance \/ GetTime \/ GetEnergy
    \/ SetCustomF64 \/ SetCustomI64 \/ SetCustomU64 \/ SetCustomBool
    \/ GetCustomF64 \/ GetCustomI64 \/ GetCustomU64 \/ GetCustomBool
    \/ GetDelta

SpecAccess == InitAccess /\ [][NextAccess]_vars

\* the feature type an accessor is for
TypeOfCall(op) ==
    CASE op \in {"get_distance", "set_distance", "add_distance"} -> "Distance"
      [] op \in {"get_time", "set_time", "add_time"}             -> "Time"
      [] op \in {"get_energy", "set_energy", "add_energy"}       -> "Energy"
      [] OTHER                                                   -> "Custom"

TypedCalls == (ReadOps \ {"get_delta"}) \cup
    {"set_distance", "set_time", "set_energy", "add_distance", "add_time", "add_energy",
     "set_custom_f64", "set_custom_i64", "set_custom_u64", "set_custom_bool"}
SetCalls == {"set_distance", "set_time", "set_energy",
             "set_custom_f64", "set_custom_i64", "set_custom_u64", "set_custom_bool"}
WriteCalls == SetCalls \cup AddCalls

\* the last call was a typed accessor on a name declared with another type
TypeMismatch ==
    /\ smLast.op \in TypedCalls
    /\ get_feature(sm, smLast.name).ok
    /\ get_feature(sm, smLast.name).val.type # TypeOfCall(smLast.op)

\* a failed set_* or add_* left every slot as it was
FailedWriteFrame ==
    (smLast.op \in WriteCalls /\ ~smLast.res.ok) => sv = smLast.before

\* C13 as stated: every typed getter, setter and add_* called with a name
\* whose feature is of another type returns IncompatibleFeatureType, and a
\* failed setter or add_* leaves the state vector unchanged.
C13_TypeMismatchError ==
    /\ TypeMismatch => smLast.res = Err("IncompatibleFeatureType")
    /\ FailedWriteFrame

\* C13, amended: a setter called with a name of another type returns
\* IncompatibleFeatureType whatever the vector; a getter or add_* reads the
\* value first, so it returns IncompatibleFeatureType when the value can be
\* read and the error of the read otherwise; a failed setter or add_* leaves
\* the state vector unchanged.
C13_TypeMismatchAfterRead ==
    /\ (TypeMismatch /\ smLast.op \in SetCalls) =>
           smLast.res = Err("IncompatibleFeatureType")
    /\ (TypeMismatch /\ smLast.op \notin SetCalls) =>
           smLast.res = IF get_value(sm, smLast.before, smLast.name).ok
                        THEN Err("IncompatibleFeatureType")
                        ELSE get_value(sm, smLast.before, smLast.name)
    /\ FailedWriteFrame

\* a custom setter refused a name of another type on a vector it could write
C13_Witness ==
    /\ TypeMismatch
    /\ smLast.op = "set_custom_f64"
    /\ get_value(sm, smLast.before, smLast.name).ok
    /\ smLast.res = Err("IncompatibleFeatureType")
    /\ sv = smLast.before

\* a typed getter refused a name of another type
C13_WitnessGetter ==
    /\ TypeMismatch
    /\ smLast.op = "get_distance"
    /\ smLast.res = Err("IncompatibleFeatureType")

\* a setter failed in its codec
C13_WitnessCodec ==
    /\ smLast.op = "set_custom_bool"
    /\ smLast.res = Err("CodecError")
    /\ sv = smLast.before

\* the last call was on a declared name and a vector of another length
WrongLength ==
    /\ smLast.op \in TypedCalls \cup {"get_delta"}
    /\ contains_key(sm, smLast.name)
    /\ Len(smLast.before) # len(sm)

\* C14 as stated: on a state vector whose length differs from len(), each
\* getter, get_delta and each setter returns StateVectorSizeMismatch and
\* writes no slot.
C14_SizeMismatch ==
    (WrongLength /\ smLast.op \in ReadOps \cup SetCalls) =>
        (smLast.res = Err("StateVectorSizeMismatch") /\ sv = smLast.before)

\* the setter's own checks pass: the feature has the setter's type and, for
\* a custom feature, the codec takes the value
SetterAccepts ==
    /\ ~TypeMismatch
    /\ smLast.op = "set_custom_f64"  => get_feature(sm, smLast.name).val.unit = "floating_point"
    /\ smLast.op = "set_custom_i64"  => get_feature(sm, smLast.name).val.unit = "signed_integer"
    /\ smLast.op = "set_custom_u64"  => get_feature(sm, smLast.name).val.unit = "unsigned_integer"
    /\ smLast.op = "set_custom_bool" => get_feature(sm, smLast.name).val.unit = "boolean"

\* C14, amended: on a state vector whose length differs from len(), each
\* getter and get_delta returns StateVectorSizeMismatch; a setter checks the
\* feature's type and encodes the value first, so it returns
\* StateVectorSizeMismatch when those checks pass; no slot is written.
C14_SizeMismatchAfterTypeCheck ==
    /\ (WrongLength /\ smLast.op \in ReadOps) =>
           smLast.res = Err("StateVectorSizeMismatch")
    /\ (WrongLength /\ smLast.op \in SetCalls /\ SetterAccepts) =>
           smLast.res = Err("StateVectorSizeMismatch")
    /\ (WrongLength /\ smLast.op \in SetCalls) =>
           (~smLast.res.ok /\ sv = smLast.before)

\* get_delta refused a vector one slot longer than the model
C14_Witness ==
    /\ WrongLength
    /\ smLast.op = "get_delta"
    /\ Len(smLast.before) > len(sm)
    /\ smLast.res = Err("StateVectorSizeMismatch")

\* a setter of the feature's type refused a vector one slot shorter
C14_WitnessSetter ==
    /\ WrongLength
    /\ smLast.op = "set_distance"
    /\ ~TypeMismatch
    /\ Len(smLast.before) < len(sm)
    /\ smLast.res = Err("StateVectorSizeMismatch")
    /\ sv = smLast.before

(***************************************************************************)
(* SpecRFNonFinite: the energy model on the same road, with a regressor    *)
(* whose leaves hold NaN and +infinity besides a finite rate.              *)
(***************************************************************************)
NonFiniteRates == {F64NaN, F64Infinity, 1}

NonFiniteModels ==
    [ features    : {2},
      speed_split : {50 * 100, 100 * 100},
      grade_split : {-20, 0},
      leaf        : [ {0, 1} \X {0, 1} -> NonFiniteRates ] ]

InitRFNonFinite ==
    /\ rf \in Constructed(NonFiniteModels)
    /\ rfAt = [start |-> 0, cur |-> 0, steps |-> 0]
    /\ rfState \in RFStartStates
    /\ rfLast = [kind |-> "new", pred |-> 0, total_cost |-> 0, before |-> rfState]
    /\ rfSum = 0
    /\ IdleSearch /\ IdleSM /\ IdleAgg /\ IdleInterp /\ IdleCall

SpecRFNonFinite == InitRFNonFinite /\ [][NextRF]_vars

\* C15: when the predictor returns NaN or +infinity for an edge,
\* traversal_cost returns the error PredictionInvalid and no TraversalResult,
\* so no NaN or infinite value is written to the state vector or returned as
\* total_cost.
C15_PredictionInvalid ==
    /\ (rfLast.kind \in TraversalCalls /\ rfLast.energy.ok /\ ~IsFinite(rfLast.energy.val))
           => rfLast.res = Err("PredictionInvalid")
    /\ \A i \in DOMAIN rfState : IsFinite(rfState[i])
    /\ rfLast.kind = "traversal_cost" => IsFinite(rfLast.total_cost)

(***************************************************************************)
(* BilinearInterp (routee-compass-powertrain/.../interpolation/utils.rs)   *)
(*                                                                         *)
(* Coordinates are whole grid units, values are thousandths, or one of the *)
(* f64 values +infinity, -infinity and NaN.  The f64 quotients and         *)
(* products of interpolate are not rounded to a thousandth: fxy1 and fxy2  *)
(* are carried as numerators over x1 - x0, and a finite result is rounded  *)
(* once, to the nearest thousandth.  The products and sums are the f64     *)
(* operations, so that a weight of 0 on an infinite value gives NaN.       *)
(***************************************************************************)

\* a mutant: the loop looks for the least entry above the target
RECURSIVE find_lower_bound_strict(_, _, _, _)
find_lower_bound_strict(arr, target, low, high) ==
    IF low < high
    THEN LET mid == low + (high - low) \div 2 IN
         IF arr[mid + 1] > target
         THEN find_lower_bound_strict(arr, target, low, mid)
         ELSE find_lower_bound_strict(arr, target, mid + 1, high)
    ELSE low

\* the while loop of find_nearest_index: the least index in low..high whose
\* entry is >= target, or high
RECURSIVE find_lower_bound(_, _, _, _)
find_lower_bound(arr, target, low, high) ==
    IF low < high
    THEN LET mid == low + (high - low) \div 2 IN
         IF arr[mid + 1] >= target
         THEN find_lower_bound(arr, target, low, mid)
         ELSE find_lower_bound(arr, target, mid + 1, high)
    ELSE low

\* a mutant: the index found is not stepped back to the cell's lower corner
find_nearest_index_no_step(arr, target) ==
    find_lower_bound(arr, target, 0, Len(arr) - 1)

\* arr.len() - 1 of an empty array underflows: the debug build panics there,
\* the release build wraps and panics at arr[mid]; no index is returned
find_nearest_index(arr, target) ==
    IF Len(arr) = 0 THEN IndexPanic
    ELSE LET low == find_lower_bound(arr, target, 0, Len(arr) - 1) IN
         IF low > 0 /\ arr[low + 1] >= target THEN low - 1 ELSE low

\* windows(2).all(|w| w[0] < w[1])
StrictlyIncreasing(c) == \A i \in 1..(Len(c) - 1) : c[i] < c[i + 1]

\* values[0] of an empty values panics
BilinearInterp_new(x, y, values) ==
    IF Len(x) # Len(values)
    THEN Err("Supplied x must have same dimensionality as values")
    ELSE IF Len(values) = 0 THEN IndexPanic
    ELSE IF Len(y) # Len(values[1])
    THEN Err("Supplied y must have same dimensionality as values")
    ELSE IF ~StrictlyIncreasing(x)
    THEN Err("Supplied x coordinates must be sorted and non-repeating")
    ELSE IF ~StrictlyIncreasing(y)
    THEN Err("Supplied y coordinates must be sorted and non-repeating")
    ELSE Ok([x |-> x, y |-> y, values |-> values])

\* a panic of find_nearest_index (an empty x or y) ends the call; the reads
\* of values are checked against the table's rows
interpolate(self, x, y) ==
    LET x_index == find_nearest_index(self.x, x)
        y_index == find_nearest_index(self.y, y)
    IN  IF Len(self.x) = 0 \/ Len(self.y) = 0 THEN IndexPanic
        ELSE IF x_index >= Len(self.x) - 1 \/ y_index >= Len(self.y) - 1
        THEN Err("Cannot interpolate outside of grid bounds")
        ELSE IF \E i \in {x_index + 1, x_index + 2} :
                   \/ i \notin DOMAIN self.values
                   \/ \E j \in {y_index + 1, y_index + 2} : j \notin DOMAIN self.values[i]
        THEN IndexPanic
        ELSE LET x0   == self.x[x_index + 1]
                 x1   == self.x[x_index + 2]
                 y0   == self.y[y_index + 1]
                 y1   == self.y[y_index + 2]
                 q11  == self.values[x_index + 1][y_index + 1]
                 q12  == self.values[x_index + 1][y_index + 2]
                 q21  == self.values[x_index + 2][y_index + 1]
                 q22  == self.values[x_index + 2][y_index + 2]
                 fxy1 == f64_add(f64_mul(x1 - x, q11), f64_mul(x - x0, q21))
                 fxy2 == f64_add(f64_mul(x1 - x, q12), f64_mul(x - x0, q22))
                 sum  == f64_add(f64_mul(y1 - y, fxy1), f64_mul(y - y0, fxy2))
             IN  IF IsFinite(sum) THEN Ok(RoundDiv(sum, (x1 - x0) * (y1 - y0)))
                 ELSE Ok(sum)

(***************************************************************************)
(* SpecInterp: a table is built by BilinearInterp::new and queried.        *)
(***************************************************************************)
MaxCoord == 3      \* grid coordinates lie in 0..MaxCoord, queries one beyond

\* coordinate vectors handed to new: single points, sorted vectors with
\* cells of width 1, 2 and 3, an unsorted and a repeating vector
XCoords == { <<0>>, <<0, 3>>, <<0, 2, 3>>, <<1, 2>>, <<2, 0>>, <<1, 1>> }
YCoords == { <<0>>, <<0, 3>>, <<1, 2>>, <<3, 1>> }
TableValues == {0, 2000, 3100}

\* the tables handed to new: every table of 1 to 3 rows of 1 or 2 values,
\* tables whose second row is shorter than the first, and 2 x 2 tables that
\* hold an infinite value or NaN
RectangularTables == UNION { [1..n -> [1..k -> TableValues]] : n \in 1..3, k \in 1..2 }
RaggedTables ==
    { <<r1, r2>> : r1 \in [1..2 -> TableValues], r2 \in [1..1 -> TableValues] }
NonFiniteTables ==
    { t \in [1..2 -> [1..2 -> {2000, F64Infinity, F64NaN}]] :
        \E i, j \in 1..2 : ~IsFinite(t[i][j]) }
Tables == RectangularTables \cup RaggedTables \cup NonFiniteTables

InitInterp ==
    /\ \E x \in XCoords, y \in YCoords, values \in Tables :
         interp = BilinearInterp_new(x, y, values)
    /\ interpLast = [x |-> 0, y |-> 0, res |-> Err("none"), x_index |-> 0, y_index |-> 0]
    /\ IdleSearch /\ IdleRF /\ IdleSM /\ IdleAgg /\ IdleCall

\* interpolate(x, y), with the two indices it looks up
Interpolate ==
    /\ interp.ok
    /\ \E x \in -1..(MaxCoord + 1), y \in -1..(MaxCoord + 1) :
         interpLast' = [x |-> x, y |-> y, res |-> interpolate(interp.val, x, y),
                        x_index |-> find_nearest_index(interp.val.x, x),
                        y_index |-> IF Len(interp.val.x) = 0 THEN IndexPanic
                                    ELSE find_nearest_index(interp.val.y, y)]
    /\ UNCHANGED interp
    /\ UNCHANGED <<searchVars, rfVars, smVars, aggVars, callVars>>

NextInterp == Interpolate

SpecInterp == InitInterp /\ [][NextInterp]_vars

Queried == interp.ok /\ interpLast.res # Err("none")
FirstOf(c) == c[1]
LastOf(c)  == c[Len(c)]
InsideGrid ==
    /\ FirstOf(interp.val.x) <= interpLast.x /\ interpLast.x <= LastOf(interp.val.x)
    /\ FirstOf(interp.val.y) <= interpLast.y /\ interpLast.y <= LastOf(interp.val.y)

\* C16: on a grid accepted by new, interpolate returns an error for every
\* query point outside the grid bounds (below x[0] or y[0], above x[last]
\* or y[last]) and a value only for points inside them.
C16_OutsideIsError ==
    (Queried /\ ~InsideGrid) => ~interpLast.res.ok

\* the half of C16 that holds: a point above x[last] or y[last] is refused
C16_AboveIsError ==
    (Queried /\ (interpLast.x > LastOf(interp.val.x) \/ interpLast.y > LastOf(interp.val.y)))
        => ~interpLast.res.ok

\* the value stored for the grid point (x[i], y[j]): a read outside the
\* table has none
StoredAt(self, i, j) ==
    IF i \in DOMAIN self.values /\ j \in DOMAIN self.values[i]
    THEN Ok(self.values[i][j]) ELSE IndexPanic

\* C17: on a grid of at least 2 x 2 points accepted by new, interpolate at
\* a grid point (x[i], y[j]), the four corners included, returns
\* Ok(values[i][j]) exactly.
C17_GridPointExact ==
    (Queried /\ Len(interp.val.x) >= 2 /\ Len(interp.val.y) >= 2) =>
        \A i \in DOMAIN interp.val.x, j \in DOMAIN interp.val.y :
            (interpLast.x = interp.val.x[i] /\ interpLast.y = interp.val.y[j]) =>
                /\ StoredAt(interp.val, i, j).ok
                /\ interpLast.res = StoredAt(interp.val, i, j)

\* every row of the table has y.len() entries, and every entry is finite
RectangularFinite(self) ==
    \A i \in DOMAIN self.values :
        /\ Len(self.values[i]) = Len(self.y)
        /\ \A j \in DOMAIN self.values[i] : IsFinite(self.values[i][j])

\* C17 on the tables that are rectangular and finite (holds)
C17_GridPointExactRectangular ==
    (interp.ok /\ RectangularFinite(interp.val)) => C17_GridPointExact

\* a grid point of a table whose second row is short: the read of
\* values[1][1] panics
C17_WitnessRagged ==
    /\ Queried
    /\ interp.val.x = <<0, 3>> /\ interp.val.y = <<0, 3>>
    /\ Len(interp.val.values[2]) = 1
    /\ interpLast.x = 0 /\ interpLast.y = 0
    /\ interpLast.res = IndexPanic

\* a grid point next to an infinite value: 0 * inf is NaN
C17_WitnessNaN ==
    /\ Queried
    /\ interp.val.x = <<0, 3>> /\ interp.val.y = <<0, 3>>
    /\ interp.val.values = << <<2000, 2000>>, <<F64Infinity, 2000>> >>
    /\ interpLast.x = 0 /\ interpLast.y = 0
    /\ interpLast.res = Ok(F64NaN)

\* the corner (x[last], y[last]) of a 3 x 2 grid returned its stored value,
\* which differs from the values around it
C17_Witness ==
    /\ Queried
    /\ Len(interp.val.x) = 3 /\ Len(interp.val.y) = 2
    /\ interpLast.x = LastOf(interp.val.x) /\ interpLast.y = LastOf(interp.val.y)
    /\ interpLast.res = Ok(interp.val.values[3][2])
    /\ interp.val.values[3][2] = 3100
    /\ interp.val.values[2][2] = 0 /\ interp.val.values[3][1] = 2000

\* an interior point of a cell of width 3 returned a mix of the corners
C17_WitnessInterior ==
    /\ Queried
    /\ interp.val.x = <<0, 3>> /\ interp.val.y = <<0, 3>>
    /\ interpLast.x = 1 /\ interpLast.y = 2
    /\ interpLast.res.ok
    /\ interpLast.res.val \notin TableValues

(***************************************************************************)
(* SpecGraph: the Graph operations called with every id on graphs whose    *)
(* adj and rev may be shorter than vertices and may hold edge ids that     *)
(* have no entry in edges.                                                 *)
(***************************************************************************)
MaxId == 3        \* vertex and edge ids asked for lie in 0..MaxId

OpVertices == [ i \in 1..3 |-> [vertex_id |-> i - 1] ]

\* edges 0: 0 -> 1 and 1: 1 -> 2; the shorter list leaves edge id 1 without
\* attributes, edge id 2 has none in either
OpEdgeLists ==
    { << [edge_id |-> 0, src_vertex_id |-> 0, dst_vertex_id |-> 1, distance |-> 1],
         [edge_id |-> 1, src_vertex_id |-> 1, dst_vertex_id |-> 2, distance |-> 1] >>,
      << [edge_id |-> 0, src_vertex_id |-> 0, dst_vertex_id |-> 1, distance |-> 1] >> }

\* one slot of adj or rev: a map from edge ids to a vertex id
OpSlots == { [ e \in keys |-> 2 ] : keys \in { {}, {0, 1}, {1, 2} } }
OpSlotLists == UNION { [1..n -> OpSlots] : n \in 2..3 }

OpGraphs ==
    { [adj |-> a, rev |-> r, edges |-> es, vertices |-> OpVertices] :
        a \in OpSlotLists, r \in OpSlotLists, es \in OpEdgeLists }

InitGraph ==
    /\ graph \in OpGraphs
    /\ h = <<>> /\ origin = 0 /\ destination = 0
    /\ direction = "Forward" /\ frontier = {} /\ tree = <<>>
    /\ settled = {} /\ pc = "idle" /\ result = <<>>
    /\ graphLast = [op |-> "none", id |-> 0, dir |-> "Forward", res |-> Ok(0), before |-> graph]
    /\ IdleRF /\ IdleSM /\ IdleAgg /\ IdleInterp

\* a call of a Graph operation: the graph is borrowed immutably
Call(op, id, dir, r) ==
    /\ graphLast' = [op |-> op, id |-> id, dir |-> dir, res |-> r, before |-> graph]
    /\ UNCHANGED searchVars
    /\ UNCHANGED <<rfVars, smVars, aggVars, interpVars>>

EdgeAttr   == \E e \in 0..MaxId : Call("edge_attr", e, "Forward", edge_attr(graph, e))
VertexAttr == \E v \in 0..MaxId : Call("vertex_attr", v, "Forward", vertex_attr(graph, v))
OutEdges   == \E v \in 0..MaxId : Call("out_edges", v, "Forward", out_edges(graph, v))
InEdges    == \E v \in 0..MaxId : Call("in_edges", v, "Reverse", in_edges(graph, v))
IncidentTriplets ==
    \E v \in 0..MaxId, dir \in {"Forward", "Reverse"} :
        \E edge_ids \in { incident_edges(graph, v, dir) } :
            IF ~edge_ids.ok
            THEN Call("incident_triplets", v, dir, edge_ids)
            ELSE \E order \in KeyOrders(edge_ids.val) :
                     Call("incident_triplets", v, dir, incident_triplets(graph, v, dir, order))

NextGraph == EdgeAttr \/ VertexAttr \/ OutEdges \/ InEdges \/ IncidentTriplets

SpecGraph == InitGraph /\ [][NextGraph]_vars

\* the slot of vertex v in the direction's adjacency, and whether it exists
SlotsOf(dir) == IF dir = "Forward" THEN graph.adj ELSE graph.rev
HasSlot(v, dir) == v + 1 \in DOMAIN SlotsOf(dir)
KeysOf(v, dir) == DOMAIN SlotsOf(dir)[v + 1]
HasAttr(e) == e < Len(graph.edges)

\* C18: for a vertex v with an adjacency slot, incident_triplets(v, dir)
\* returns exactly one triplet (v, e, t) per edge e of adj[v] (Forward) or
\* rev[v] (Reverse), with t = edges[e].dst when Forward and edges[e].src
\* when Reverse; if an incident edge id has no edge attribute the call
\* returns that error and no partial list.
C18_IncidentTriplets ==
    (graphLast.op = "incident_triplets" /\ HasSlot(graphLast.id, graphLast.dir)) =>
        LET v    == graphLast.id
            dir  == graphLast.dir
            keys == KeysOf(v, dir)
            res  == graphLast.res
        IN  IF \A e \in keys : HasAttr(e)
            THEN /\ res.ok
                 /\ Len(res.val) = Cardinality(keys)
                 /\ { res.val[i][2] : i \in DOMAIN res.val } = keys
                 /\ \A i \in DOMAIN res.val :
                      /\ res.val[i][1] = v
                      /\ res.val[i][3] =
                           IF dir = "Forward"
                           THEN graph.edges[res.val[i][2] + 1].dst_vertex_id
                           ELSE graph.edges[res.val[i][2] + 1].src_vertex_id
            ELSE res = Err("EdgeAttributeNotFound")

\* two triplets were returned for a vertex in the Reverse direction
C18_Witness ==
    /\ graphLast.op = "incident_triplets"
    /\ graphLast.dir = "Reverse"
    /\ HasSlot(graphLast.id, "Reverse")
    /\ graphLast.res.ok
    /\ Len(graphLast.res.val) = 2
    /\ graphLast.res.val[1][3] # graphLast.res.val[2][3]

\* an edge id without attributes made the call fail after an edge with
\* attributes had been listed
C18_WitnessError ==
    /\ graphLast.op = "incident_triplets"
    /\ HasSlot(graphLast.id, graphLast.dir)
    /\ \E e \in KeysOf(graphLast.id, graphLast.dir) : HasAttr(e)
    /\ graphLast.res = Err("EdgeAttributeNotFound")

\* C19: edge_attr(e) fails with EdgeAttributeNotFound exactly when e is not
\* below the number of edges, vertex_attr(v) with VertexAttributeNotFound
\* exactly when v is not below the number of vertices; out_edges / in_edges
\* fail with VertexWithoutOutEdges / VertexWithoutInEdges exactly when v has
\* no slot in adj / rev and otherwise return the edge ids of the slot; no
\* operation changes the graph.
C19_Lookups ==
    /\ graphLast.op = "edge_attr" =>
         graphLast.res = IF graphLast.id < Len(graph.edges)
                         THEN Ok(graph.edges[graphLast.id + 1])
                         ELSE Err("EdgeAttributeNotFound")
    /\ graphLast.op = "vertex_attr" =>
         graphLast.res = IF graphLast.id < Len(graph.vertices)
                         THEN Ok(graph.vertices[graphLast.id + 1])
                         ELSE Err("VertexAttributeNotFound")
    /\ graphLast.op = "out_edges" =>
         graphLast.res = IF graphLast.id < Len(graph.adj)
                         THEN Ok(DOMAIN graph.adj[graphLast.id + 1])
                         ELSE Err("VertexWithoutOutEdges")
    /\ graphLast.op = "in_edges" =>
         graphLast.res = IF graphLast.id < Len(graph.rev)
                         THEN Ok(DOMAIN graph.rev[graphLast.id + 1])
                         ELSE Err("VertexWithoutInEdges")
    /\ graph = graphLast.before

\* in_edges returned the ids of a rev slot that differs from the adj slot
C19_Witness ==
    /\ graphLast.op = "in_edges"
    /\ graphLast.id < Len(graph.rev) /\ graphLast.id < Len(graph.adj)
    /\ graphLast.res = Ok({1, 2})
    /\ DOMAIN graph.adj[graphLast.id + 1] = {}

\* a vertex with attributes but no adj slot
C19_WitnessNoSlot ==
    /\ graphLast.op = "out_edges"
    /\ graphLast.id < Len(graph.vertices)
    /\ graphLast.res = Err("VertexWithoutOutEdges")

(***************************************************************************)
(* The order of the state-vector indices (checked under SpecSM).           *)
(***************************************************************************)
EntryNames(entries) == { entries[i][1] : i \in DOMAIN entries }
DistinctNames(entries) ==
    \A i, j \in DOMAIN entries : entries[i][1] = entries[j][1] => i = j

\* the number of names of S below name: its place in ascending order
RankIn(S, name) == Cardinality({ n \in S : n < name })

\* m holds exactly the names of S, each at the index of its rank, and the
\* iterators list them in that order
OrderedByName(m, S) ==
    /\ len(m) = Cardinality(S)
    /\ \A name \in Names : contains_key(m, name) <=> name \in S
    /\ \A name \in S : get_index(m, name) = Ok(RankIn(S, name))
    /\ \A i \in DOMAIN iter(m) : RankIn(S, iter(m)[i][1]) = i - 1

Reorderings(entries) ==
    { [ i \in DOMAIN entries |-> entries[q[i]] ] : q \in KeyOrders(DOMAIN entries) }

\* C20: new assigns the indices by ascending feature name: for an input
\* list with pairwise distinct names, in any order, the feature at index i
\* is the one with the i-th smallest name, every permutation of the list
\* builds the same model, and a model returned by extend (of a model built
\* from such a list, with pairwise distinct entries) is ordered the same way.
C20_IndexByName ==
    /\ (smIn.op = "new" /\ DistinctNames(smIn.entries)) =>
         /\ OrderedByName(sm, EntryNames(smIn.entries))
         /\ \A i \in DOMAIN smIn.entries :
              get_feature(sm, smIn.entries[i][1]) = Ok(smIn.entries[i][2])
         /\ \A permuted \in Reorderings(smIn.entries) : StateModel_new(permuted) = sm
    /\ (smIn.op = "extend" /\ WellFormed(smIn.base) /\ DistinctNames(smIn.entries)) =>
         /\ OrderedByName(sm, EntryNames(smIn.entries)
                              \cup { n \in Names : contains_key(smIn.base, n) })
         /\ \A i \in DOMAIN smIn.entries :
              get_feature(sm, smIn.entries[i][1]) = Ok(smIn.entries[i][2])

\* five features handed to new in descending order of name
C20_Witness ==
    /\ smIn.op = "new"
    /\ Len(smIn.entries) = 5
    /\ \A i \in 1..4 : smIn.entries[i][1] > smIn.entries[i + 1][1]
    /\ \A i \in 1..5 : get_index(sm, smIn.entries[i][1]) = Ok(5 - i)

\* extend put a new name in front of the names of the base model
C20_WitnessExtend ==
    /\ smIn.op = "extend"
    /\ WellFormed(smIn.base) /\ DistinctNames(smIn.entries)
    /\ len(smIn.base) >= 2
    /\ Len(smIn.entries) = 2
    /\ ~contains_key(smIn.base, smIn.entries[1][1])
    /\ smIn.entries[1][1] > smIn.entries[2][1]
    /\ get_index(sm, smIn.entries[2][1]) = Ok(0)
    /\ len(sm) > len(smIn.base)

(***************************************************************************)
(* SpecStart: the vector a search starts from.  A StateModel is built      *)
(* from features with zero and non-zero initial values and from one whose  *)
(* initial value its codec cannot encode; the search asks the StateModel   *)
(* and the RouteE traversal model for the initial state.                   *)
(***************************************************************************)
MaxFeatures == 3    \* features handed to new

StartPool ==
    << <<1, StateFeature("Distance", "Meters", 0)>>,
       <<2, StateFeature("Energy", "GallonsGasoline", 0)>>,
       <<2, StateFeature("Energy", "KilowattHours", 1000)>>,
       <<3, StateFeature("Time", "Seconds", 5000)>>,
       <<4, StateFeature("Custom", "floating_point", 2500)>>,
       <<4, StateFeature("Custom", "unsigned_integer", -1)>> >>

StartEntryLists ==
    UNION { [1..n -> { StartPool[i] : i \in DOMAIN StartPool }] : n \in 0..MaxFeatures }

InitStart ==
    /\ \E entries \in StartEntryLists :
         /\ smIn = [op |-> "new", base |-> StateModel_empty, entries |-> entries, depth |-> 0]
         /\ sm = StateModel_new(entries)
    /\ sv = <<>>
    /\ smLast = [op |-> "none", res |-> Ok(<<>>)]
    /\ IdleSearch /\ IdleRF /\ IdleAgg /\ IdleInterp /\ IdleCall

\* state_model.initial_state(): the vector is kept when there is one
StateModelInitialState ==
    /\ \E r \in { initial_state(sm) } :
         /\ smLast' = [op |-> "StateModel::initial_state", res |-> r]
         /\ sv' = IF r.ok THEN r.val ELSE sv
    /\ UNCHANGED <<sm, smIn>>
    /\ UNCHANGED <<searchVars, rfVars, aggVars, interpVars, callVars>>

\* RouteERandomForestModel::initial_state(&self): vec![StateVar(0.0)], the
\* hundredths of a gallon of rf_initial_state as f64 values
TraversalModelInitialState ==
    /\ \E r \in { [ i \in DOMAIN rf_initial_state |-> binary64_of_ratio(rf_initial_state[i], 100) ] } :
         /\ smLast' = [op |-> "TraversalModel::initial_state", res |-> Ok(r)]
         /\ sv' = r
    /\ UNCHANGED <<sm, smIn>>
    /\ UNCHANGED <<searchVars, rfVars, aggVars, interpVars, callVars>>

NextStart == StateModelInitialState \/ TraversalModelInitialState

SpecStart == InitStart /\ [][NextStart]_vars

\* r is what initial_state has to return for model m: the initial values at
\* the features' indices, or an error when one of them cannot be produced
IsInitialStateOf(r, m) ==
    IF \E name \in Names : get_feature(m, name).ok /\ ~get_initial(get_feature(m, name).val).ok
    THEN ~r.ok
    ELSE /\ r.ok
         /\ Len(r.val) = len(m)
         /\ \A name \in Names :
              get_index(m, name).ok =>
                  /\ get_index(m, name).val < Len(r.val)
                  /\ r.val[get_index(m, name).val + 1] = quantity(get_feature(m, name).val.initial)

\* C21: StateModel::initial_state returns a vector of length len() holding
\* each feature's initial value at the feature's index, or an error and no
\* vector when an initial value cannot be produced, and the traversal
\* model's initial_state returns that same vector for the model in use.
C21_InitialState ==
    smLast.op \in {"StateModel::initial_state", "TraversalModel::initial_state"} =>
        IsInitialStateOf(smLast.res, sm)

\* the part of C21 about StateModel::initial_state alone, on models built
\* from lists with pairwise distinct names
C21_StateModelInitialState ==
    (smLast.op = "StateModel::initial_state" /\ DistinctNames(smIn.entries)) =>
        IsInitialStateOf(smLast.res, sm)

\* the StateModel returned non-zero initial values for three features
C21_WitnessStateModel ==
    /\ smLast.op = "StateModel::initial_state"
    /\ DistinctNames(smIn.entries)
    /\ smLast.res = Ok(<<quantity(1000), quantity(5000), quantity(2500)>>)

\* the StateModel refused a feature whose initial value cannot be encoded
C21_WitnessError ==
    /\ smLast.op = "StateModel::initial_state"
    /\ DistinctNames(smIn.entries)
    /\ Len(smIn.entries) = 3
    /\ smLast.res = Err("CodecError")
    /\ sv = <<>>

(***************************************************************************)
(* SpecCells: interpolators over every strictly increasing coordinate      *)
(* vector of 2 to MaxCoord + 1 points, with a table whose entries all      *)
(* differ, queried at every point.                                         *)
(***************************************************************************)
IncreasingArrays ==
    { arr \in UNION { [1..n -> 0..MaxCoord] : n \in 2..(MaxCoord + 1) } : StrictlyIncreasing(arr) }

\* values[i][j] = 1000 * i + 100 * j + 7 * i * j: no two entries agree and
\* the table is not bilinear
CellTable(x, y) == [ i \in DOMAIN x |-> [ j \in DOMAIN y |-> 1000 * i + 100 * j + 7 * i * j ] ]

InitCells ==
    /\ \E x \in IncreasingArrays, y \in IncreasingArrays :
         interp = BilinearInterp_new(x, y, CellTable(x, y))
    /\ interpLast = [x |-> 0, y |-> 0, res |-> Err("none"), x_index |-> 0, y_index |-> 0]
    /\ IdleSearch /\ IdleRF /\ IdleSM /\ IdleAgg /\ IdleCall

SpecCells == InitCells /\ [][NextInterp]_vars

\* the bilinear mix of the four values at the corners of cell (i, j)
CellMix(self, i, j, x, y) ==
    LET x0 == self.x[i + 1]
        x1 == self.x[i + 2]
        y0 == self.y[j + 1]
        y1 == self.y[j + 2]
    IN  RoundDiv(  (y1 - y) * (x1 - x) * self.values[i + 1][j + 1]
                 + (y1 - y) * (x - x0) * self.values[i + 2][j + 1]
                 + (y - y0) * (x1 - x) * self.values[i + 1][j + 2]
                 + (y - y0) * (x - x0) * self.values[i + 2][j + 2],
                 (x1 - x0) * (y1 - y0))

\* index i is inside arr and, for a target above arr[0] and not above
\* arr[last], arr[i] < target <= arr[i + 1]
NearestIndexRight(arr, target, i) ==
    /\ i \in 0..(Len(arr) - 1)
    /\ (arr[1] < target /\ target <= arr[Len(arr)]) =>
         (i + 2 \in DOMAIN arr /\ arr[i + 1] < target /\ target <= arr[i + 2])

\* C22: on strictly increasing arrays of length >= 2 find_nearest_index
\* returns an index inside the array, with arr[i] < target <= arr[i + 1]
\* when arr[0] < target <= arr[last]; so for an in-bounds query interpolate
\* takes its four values from the cell [x[i], x[i+1]] x [y[j], y[j+1]] that
\* contains the query point.
C22_NearestIndexCell ==
    (Queried /\ Len(interp.val.x) >= 2 /\ Len(interp.val.y) >= 2) =>
        /\ NearestIndexRight(interp.val.x, interpLast.x, interpLast.x_index)
        /\ NearestIndexRight(interp.val.y, interpLast.y, interpLast.y_index)
        /\ InsideGrid =>
             /\ interp.val.x[interpLast.x_index + 1] <= interpLast.x
             /\ interpLast.x <= interp.val.x[interpLast.x_index + 2]
             /\ interp.val.y[interpLast.y_index + 1] <= interpLast.y
             /\ interpLast.y <= interp.val.y[interpLast.y_index + 2]
             /\ interpLast.res = Ok(CellMix(interp.val, interpLast.x_index, interpLast.y_index,
                                            interpLast.x, interpLast.y))

\* a query on a grid line of a 4 x 3 grid, strictly inside in y, answered
\* from the last cell in x
C22_Witness ==
    /\ Queried
    /\ Len(interp.val.x) = 4 /\ interp.val.y = <<0, 1, 3>>
    /\ interpLast.x = 3 /\ interpLast.y = 2
    /\ interpLast.x_index = 2 /\ interpLast.y_index = 1
    /\ interpLast.res.ok

(***************************************************************************)
(* CostAggregation::agg_iter: the fold over an iterator of Results.        *)
(***************************************************************************)
\* a mutant: an Err item is passed over
agg_iter_skip_err(mode, costs) ==
    LET sum[i \in 0..Len(costs)] ==
          IF i = 0 THEN Cost_ZERO
          ELSE IF ~costs[i].ok THEN sum[i - 1]
          ELSE cost_add(sum[i - 1], costs[i].val[2])
        product[i \in 0..Len(costs)] ==
          IF i = 0 THEN Cost_ONE
          ELSE IF ~costs[i].ok THEN product[i - 1]
          ELSE cost_mul(product[i - 1], costs[i].val[2])
    IN  IF mode = "Sum" THEN Ok(sum[Len(costs)])
        ELSE IF costs = <<>> THEN Ok(Cost_ZERO) ELSE Ok(product[Len(costs)])

\* sum[i] / product[i]: the accumulator after i items, or the Err that `?`
\* returned at the first failing item
agg_iter(mode, costs) ==
    LET sum[i \in 0..Len(costs)] ==
          IF i = 0 THEN Ok(Cost_ZERO)
          ELSE IF ~sum[i - 1].ok THEN sum[i - 1]
          ELSE IF ~costs[i].ok THEN costs[i]
          ELSE Ok(cost_add(sum[i - 1].val, costs[i].val[2]))
        product[i \in 0..Len(costs)] ==
          IF i = 0 THEN Ok(Cost_ONE)
          ELSE IF ~product[i - 1].ok THEN product[i - 1]
          ELSE IF ~costs[i].ok THEN costs[i]
          ELSE Ok(cost_mul(product[i - 1].val, costs[i].val[2]))
    IN  IF mode = "Sum" THEN sum[Len(costs)]
        ELSE IF costs = <<>> THEN Ok(Cost_ZERO) ELSE product[Len(costs)]

\* the errors a cost computation may yield, told apart by their text
CostErrors == {"CostError a", "CostError b"}

InitAggIter ==
    /\ aggIn \in [mode : Modes, costs : {<<>>}, done : {FALSE}]
    /\ aggOut = Ok(Cost_ZERO)
    /\ IdleSearch /\ IdleRF /\ IdleSM /\ IdleInterp /\ IdleCall

\* the iterator yields one more item: the cost of a feature or an error
PushItem ==
    /\ Len(aggIn.costs) < MaxCosts
    /\ \E item \in { Ok(<<Len(aggIn.costs) + 1, c>>) : c \in CostValues }
                   \cup { Err(e) : e \in CostErrors } :
         aggIn' = [aggIn EXCEPT !.costs = Append(@, item), !.done = FALSE]
    /\ aggOut' = Ok(Cost_ZERO)
    /\ UNCHANGED <<searchVars, rfVars, smVars, interpVars, callVars>>

AggIter ==
    /\ ~aggIn.done
    /\ aggOut' = agg_iter(aggIn.mode, aggIn.costs)
    /\ aggIn' = [aggIn EXCEPT !.done = TRUE]
    /\ UNCHANGED <<searchVars, rfVars, smVars, interpVars, callVars>>

NextAggIter == PushItem \/ AggIter

SpecAggIter == InitAggIter /\ [][NextAggIter]_vars

AllOk(items) == \A i \in DOMAIN items : items[i].ok
FirstErr(items) ==
    items[CHOOSE i \in DOMAIN items :
            ~items[i].ok /\ \A j \in DOMAIN items : ~items[j].ok => i <= j]

\* C23: on a sequence of Ok costs agg_iter returns Ok of the cost agg
\* returns on it, 0 for the empty sequence in both modes; on a sequence
\* with an Err it returns the first Err in sequence order and no cost, also
\* in Mul mode when the first item is the Err.
C23_AggIterAgrees ==
    aggIn.done =>
        IF AllOk(aggIn.costs)
        THEN aggOut = Ok(agg(aggIn.mode, [ i \in DOMAIN aggIn.costs |-> aggIn.costs[i].val ]))
        ELSE aggOut = FirstErr(aggIn.costs)

\* Mul mode, the first item is an Err and another Err follows a cost
C23_Witness ==
    /\ aggIn.done
    /\ aggIn.mode = "Mul"
    /\ Len(aggIn.costs) = 3
    /\ aggIn.costs[1] = Err("CostError b")
    /\ aggIn.costs[2].ok
    /\ aggIn.costs[3] = Err("CostError a")
    /\ aggOut = Err("CostError b")

\* three costs whose product is rounded
C23_WitnessRounded ==
    /\ aggIn.done
    /\ aggIn.mode = "Mul"
    /\ AllOk(aggIn.costs)
    /\ Len(aggIn.costs) = 3
    /\ aggOut.ok
    /\ aggOut.val # ExactAgg("Mul", [ i \in DOMAIN aggIn.costs |-> aggIn.costs[i].val ])
    /\ SignOf(aggOut.val) > 0

(***************************************************************************)
(* SpecNew: BilinearInterp::new on every shape of input (empty, unsorted   *)
(* and repeating coordinates, tables with too few or too many rows and     *)
(* with rows of unequal length), and the interpolators it accepts queried  *)
(* at every point.                                                         *)
(***************************************************************************)
MaxRows == 2      \* rows of values, and entries of a row

NewCoords == { <<>>, <<0>>, <<0, 2>>, <<2, 0>>, <<1, 1>> }
NewRows   == UNION { [1..k -> {0, 2000}] : k \in 0..MaxRows }
NewTables == UNION { [1..n -> NewRows] : n \in 0..MaxRows }

InitNew ==
    /\ \E x \in NewCoords, y \in NewCoords, values \in NewTables :
         interp = BilinearInterp_new(x, y, values)
    /\ interpLast = [x |-> 0, y |-> 0, res |-> Err("none"), x_index |-> 0, y_index |-> 0]
    /\ IdleSearch /\ IdleRF /\ IdleSM /\ IdleAgg /\ IdleCall

SpecNew == InitNew /\ [][NextInterp]_vars

\* strictly increasing x and y and a table of exactly Len(x) rows with
\* Len(y) entries in every row
WellShaped(self) ==
    /\ StrictlyIncreasing(self.x)
    /\ StrictlyIncreasing(self.y)
    /\ Len(self.values) = Len(self.x)
    /\ \A i \in DOMAIN self.values : Len(self.values[i]) = Len(self.y)

\* C24: new returns Err, without an out-of-range access, for every input
\* that is not a strictly increasing x, a strictly increasing y and a table
\* of exactly x.len() rows with y.len() entries in every row; and on an
\* interpolator it accepts interpolate never reads outside x, y or values.
C24_NewValidates ==
    /\ interp # IndexPanic
    /\ interp.ok => WellShaped(interp.val)
    /\ interpLast.res # IndexPanic

\* what new does check: the number of rows, the length of the first row and
\* the order of the coordinates
C24_NewChecksFirstRow ==
    interp.ok =>
        /\ StrictlyIncreasing(interp.val.x)
        /\ StrictlyIncreasing(interp.val.y)
        /\ Len(interp.val.values) = Len(interp.val.x)
        /\ Len(interp.val.values[1]) = Len(interp.val.y)

\* an accepted table with a short second row made interpolate read outside
\* values
C24_RaggedRead ==
    /\ interp.ok
    /\ Len(interp.val.values) = 2
    /\ Len(interp.val.values[2]) < Len(interp.val.y)
    /\ interpLast.res = IndexPanic

\* an accepted interpolator with an empty y made interpolate read outside y
C24_EmptyYRead ==
    /\ interp.ok /\ interp.val.y = <<>>
    /\ interpLast.res = IndexPanic /\ interpLast.y_index = IndexPanic

====
